---- MODULE Spec2Model ----
(***************************************************************************)
(* Model of the rk3566 WebRTC receiver's media pipelines:                  *)
(*   - AudioReceiver (src/webrtc/audio_receiver_rockit.cc): bounded audio  *)
(*     queue, delivery thread (OnData), worker thread                      *)
(*     (AudioProcessingThread), Start/Stop/Reset, PTS computation with     *)
(*     drift correction against the video reference;                       *)
(*   - EncodedVideoFrameHandler                                            *)
(*     (src/webrtc/encoded_video_frame_handler_rockit.cc): lazy hardware   *)
(*     bring-up on the first access unit, submission, Stop.                *)
(* Each thread of the program is a process with a program counter; every   *)
(* atomic access or mutex-protected section of the code is one step.       *)
(***************************************************************************)
EXTENDS Integers, Sequences, FiniteSets, TLC

(***************************************************************************)
(* Bounds of the model.                                                    *)
(***************************************************************************)
\* capacity of the audio queue (max_buffer_size_ is 100 in the constructor,
\* audio_receiver_rockit.cc:39; scaled down here)
max_buffer_size_ == 2
\* chunks that pass the running check of OnData in one behaviour
MaxChunks == 3
\* worker threads spawned by Start in one behaviour
MaxStarts == 2
\* Reset calls in one behaviour
MaxResets == 1
\* access units that pass the running check of OnEncodedImage in one behaviour
MaxFrames == 2
\* access units that pass the running check in one behaviour of a pipeline
\* that is stopped and started again
MaxRestartFrames == 3
\* sessions of the video pipeline (effective Start calls) in one behaviour
MaxVideoStarts == 2
\* Reset calls on the video pipeline in one behaviour
MaxVideoResets == 1
\* Connect calls of the signaling client's caller in one behaviour
MaxConnects == 2
\* Register calls of the signaling client's caller in one behaviour
MaxRegisters == 1
\* messages pushed by SendMessage before the caller stops sending
MaxMessages == 2
\* connections established in one behaviour
MaxEstablished == 2

(***************************************************************************)
(* Program constants.                                                      *)
(***************************************************************************)
AUDIO_STATE_INITIALIZED == 0
AUDIO_STATE_STARTED == 1
AUDIO_STATE_STOPPED == 2
AUDIO_STATE_DEVICE_ERROR == -1
AUDIO_STATE_BUFFER_OVERFLOW == -2
AUDIO_STATE_BUFFER_UNDERFLOW == -3
AUDIO_STATE_SYNC_RESET == 10
\* reconnection attempts of the signaling client between two established connections
max_reconnect_attempts_ == 5
\* default target delay of the drift correction (ms)
target_delay_ms_ == 40
\* nominal duration of one audio chunk (ms)
ChunkMs == 10

VIDEO_STATE_INITIALIZED == 0
VIDEO_STATE_STARTED == 1
VIDEO_STATE_STOPPED == 2
VIDEO_STATE_FIRST_FRAME == 3
VIDEO_STATE_KEY_FRAME == 4
VIDEO_STATE_DECODER_ERROR == -1
VIDEO_STATE_DISPLAY_ERROR == -2
VIDEO_STATE_SYNC_RESET == 10
\* Timestamp::MinusInfinity().ms(), the most negative millisecond count
\* (scaled to the integers of the checker)
MinusInfinityMs == -2147483

VideoNotifyCodes ==
    {VIDEO_STATE_INITIALIZED, VIDEO_STATE_STARTED, VIDEO_STATE_STOPPED,
     VIDEO_STATE_FIRST_FRAME, VIDEO_STATE_KEY_FRAME, VIDEO_STATE_SYNC_RESET,
     VIDEO_STATE_DECODER_ERROR, VIDEO_STATE_DISPLAY_ERROR}

\* the configurations Initialize is called with: the default resolution with
\* a codec the decoder supports, or with one it does not
VideoConfigs ==
    {[width |-> 1920, height |-> 1080, codec_type |-> "H264"],
     [width |-> 1920, height |-> 1080, codec_type |-> "VP8"]}

\* the access units the decoder thread delivers: a key frame, a delta frame
\* of the same stream, and a key frame of another resolution
Frames ==
    {[width |-> 640, height |-> 480, pts |-> 5000, key |-> TRUE],
     [width |-> 640, height |-> 480, pts |-> 5040, key |-> FALSE],
     [width |-> 1280, height |-> 720, pts |-> 5080, key |-> TRUE]}

NotifyCodes ==
    {AUDIO_STATE_STARTED, AUDIO_STATE_STOPPED, AUDIO_STATE_DEVICE_ERROR,
     AUDIO_STATE_BUFFER_OVERFLOW, AUDIO_STATE_SYNC_RESET}

\* presentation timestamps the video pipeline reports to the sync bridge
VideoPtsSet == {5000}

\* presentation timestamps of two frames reported one after the other
SyncPtsSet == {5000, 5040}

\* the wall-clock instants (ms) at which something happens: three instants
\* one chunk duration apart, then a gap longer than the target delay
TimePoints == {1, 1 + ChunkMs, 1 + 2 * ChunkMs, 1 + 2 * ChunkMs + target_delay_ms_ + ChunkMs}

VARIABLES
    now,                    \* wall clock, GetCurrentTimeMs()
    \* ---- AudioReceiver fields
    is_running_,
    is_device_working_,
    audio_buffer_,          \* queue of frames [id, pts, epoch]
    video_reference_pts_,
    video_reference_time_,
    first_audio_pts_,
    first_audio_time_,
    first_frame_received_,
    \* ---- threads of the audio pipeline
    worker,                 \* audio_thread_: worker[i] = [pc, frame] of the i-th spawned thread
    ctl_pc,                 \* owner thread inside Stop: "idle", "join", "clear", "disable"
    rst_pc,                 \* thread calling Reset: "idle", "sync" (holds sync_mutex_), "clear"
    rst_pending,            \* epoch fields Reset has still to clear while it holds sync_mutex_
    od,                     \* delivery thread inside OnData: [pc, current_time, elapsed, pts, epoch]
    svr,                    \* video thread inside SetVideoReference: [pc, video_pts, system_time, old]
    \* ---- observation
    notified,               \* notified[code]: NotifyAudioState(code, ...) calls so far
    next_id,                \* chunks enqueued so far (chunk identities, in arrival order)
    dequeued,               \* ids of the chunks the worker has dequeued, in order
    sent,                   \* SendAudioFrameToDevice calls so far, in order: [id, ok]
    epoch_id,               \* synchronisation epochs ended by Reset so far
    corrections,            \* drift corrections applied so far
    session_fresh,          \* no chunk has got a PTS since the last Start or Reset
    \* ---- EncodedVideoFrameHandler fields (v_ marks a name the audio class has too)
    v_is_initialized_,
    v_is_running_,
    is_decoder_ready_,
    is_display_ready_,
    width_,
    height_,
    codec_type_,
    v_first_frame_received_,
    first_frame_pts_,
    first_frame_time_,
    audio_sync_callback_,   \* TRUE once the sync bridge to the audio pipeline is installed
    \* ---- video hardware
    vdec,                   \* decoder channel vdec_chn_: [state, width, height]
    vo,                     \* display: [dev, layer, bound, chn, width, height]
    \* ---- threads of the video pipeline
    vf,                     \* decoder thread inside OnEncodedImage: [pc, n, unit, frame, ...]
    vstop_pc,               \* owner thread inside the video Stop
    \* ---- observation
    v_notified,             \* v_notified[code]: NotifyVideoState(code, ...) calls so far
    submitted,              \* the RK_MPI_VDEC_SendStream calls so far, with the hardware's state
    v_frames,               \* access units that have passed the running check
    v_starts,               \* effective Start calls on the video pipeline
    v_resets,               \* Reset calls on the video pipeline
    bringups,               \* successful bring-ups of the decoder and of the display in this session
    v_outcome,              \* v_outcome[n]: how the call for the n-th access unit returned
    v_session_fresh,        \* no access unit has been submitted since the last Start or Reset
    mb,                     \* mb[n]: the buffer allocated for the n-th access unit
    sync_calls,             \* the audio_sync_callback_ invocations so far: [n, pts, time]
    \* ---- PeerConnectionObserverImpl
    pco,                    \* [client_, audio_receiver_, encoded_video_handler_] and the signaling
                            \* thread inside OnIceConnectionChange: [pc, new_state, epoch0, resets0]
    \* ---- WebSocketSignalingClient fields
    is_connected_,
    is_connecting_,
    should_reconnect_,
    should_exit_,
    reconnect_attempts_,
    message_queue_,         \* queue of messages [id, type, room, est]
    room_id_,
    client_id_,
    \* ---- threads of the signaling client
    wst,                    \* websocket_thread_: [pc, batch, room, client]
    conn,                   \* the connection inside libwebsockets: "none", "connecting", "established"
    app,                    \* the caller's thread: [pc, connects, registers]
    reg,                    \* reg[t]: thread t inside Register: [pc, room, client, content]
    \* ---- observation
    queued,                 \* every message SendMessage has pushed so far, in order
    written,                \* the messages lws_write has accepted so far, in order
    established,            \* LWS_CALLBACK_CLIENT_ESTABLISHED callbacks so far
    close_called            \* Close has been called since the last effective Connect

audio_vars ==
    <<is_running_, is_device_working_, audio_buffer_, video_reference_pts_,
      video_reference_time_, first_audio_pts_, first_audio_time_,
      first_frame_received_, worker, ctl_pc, rst_pc, rst_pending, od, svr,
      notified, next_id, dequeued, sent, epoch_id, corrections, session_fresh>>

\* the audio variables a call of SetVideoReference leaves alone
audio_rest_vars_but_svr ==
    <<is_running_, is_device_working_, audio_buffer_, first_audio_pts_,
      first_audio_time_, first_frame_received_, worker, ctl_pc, rst_pc,
      rst_pending, od, notified, next_id, dequeued, sent, epoch_id,
      corrections, session_fresh>>

\* the audio variables the sync bridge does not write
audio_rest_vars ==
    <<is_running_, is_device_working_, audio_buffer_, first_audio_pts_,
      first_audio_time_, first_frame_received_, worker, ctl_pc, rst_pc,
      rst_pending, od, svr, notified, next_id, dequeued, sent, epoch_id,
      corrections, session_fresh>>

video_vars ==
    <<v_is_initialized_, v_is_running_, is_decoder_ready_, is_display_ready_,
      width_, height_, codec_type_, v_first_frame_received_, first_frame_pts_,
      first_frame_time_, audio_sync_callback_, vdec, vo, vf, vstop_pc,
      v_notified, submitted, v_frames, v_starts, v_resets, bringups,
      v_outcome, v_session_fresh, mb, sync_calls>>

\* the peer connection observer and the signaling client
signaling_vars ==
    <<pco, is_connected_, is_connecting_, should_reconnect_, should_exit_,
      reconnect_attempts_, message_queue_, room_id_, client_id_, wst, conn,
      app, reg, queued, written, established, close_called>>

vars == <<now, audio_vars, video_vars, signaling_vars>>

NoFrame == [id |-> 0, pts |-> 0, epoch |-> 0]

\* the observer as WebRTCClient creates it: client_ is the creating client,
\* no media handler is set yet, and no ICE callback is running
PcoInit ==
    [client_ |-> TRUE, audio_receiver_ |-> FALSE, encoded_video_handler_ |-> FALSE,
     pc |-> "idle", new_state |-> "New", epoch0 |-> 0, resets0 |-> 0]

\* the threads that call Register: the caller's and the websocket thread
RegisterThreads == {"app", "ws"}
\* a thread that is not inside Register
RegIdle == [pc |-> "idle", room |-> "", client |-> "", content |-> ""]
\* no websocket thread: not joinable
WstInit == [pc |-> "none", batch |-> <<>>, room |-> "", client |-> ""]
OdIdle == [pc |-> "idle", current_time |-> 0, elapsed |-> 0, pts |-> 0, epoch |-> 0]
Threads == 1..MaxStarts
NoVideoFrame == [width |-> 0, height |-> 0, pts |-> 0, key |-> FALSE]
\* a webrtc::EncodedImage as OnEncodedImage reads it
NoImage ==
    [encodedWidth |-> 0, encodedHeight |-> 0, capture_time_ms_ |-> 0,
     presentation_timestamp |-> <<>>, key |-> FALSE]
VfIdle ==
    [pc |-> "idle", n |-> 0, unit |-> NoVideoFrame, frame |-> NoImage,
     current_time |-> 0, first |-> FALSE, cb |-> FALSE]
FrameIds == 1..MaxRestartFrames
\* a buffer: the malloc'ed memory ("none", "allocated", "freed"), whether it
\* is wrapped into an MB_BLK, the references to the block held by the
\* pipeline (its handle) and by the hardware, and the free() and
\* FreeCallback calls made for it
NoBuffer ==
    [mem |-> "none", wrapped |-> FALSE, handle |-> FALSE, hw |-> FALSE,
     frees |-> 0, callbacks |-> 0]

\* the worker threads that have been spawned and have not returned
Alive == {w \in Threads : worker[w].pc \notin {"unborn", "exited"}}
Spawned == {w \in Threads : worker[w].pc # "unborn"}

Abs(x) == IF x < 0 THEN -x ELSE x
\* C++ integer division truncates toward zero
TruncDiv(a, b) == IF a >= 0 THEN a \div b ELSE -((-a) \div b)

\* NotifyAudioState with the callback main() installs: one more call with `code`
NotifyAudioState(n, code) ==
    IF code \in NotifyCodes THEN [n EXCEPT ![code] = @ + 1] ELSE n

\* a SetVideoReference call: where the video thread is in it ("idle" between
\* two calls, "pts" and "time" before the store of that field, sync_mutex_
\* held), the arguments of the latest call and those of the call before it
SvrIdle ==
    [pc |-> "idle", video_pts |-> 0, system_time |-> 0, old |-> <<0, 0>>]

\* (variant: the audio pipeline does not wait for the video thread)
Mutant_SyncMutexIgnoresVideoThread == rst_pc # "sync"

\* sync_mutex_ is held across steps by Reset and by SetVideoReference
SyncMutexFree == rst_pc # "sync" /\ svr.pc = "idle"

Init ==
    /\ now = 1
    /\ is_running_ = FALSE
    /\ is_device_working_ = FALSE
    /\ audio_buffer_ = <<>>
    /\ video_reference_pts_ = 0
    /\ video_reference_time_ = 0
    /\ first_audio_pts_ = 0
    /\ first_audio_time_ = 0
    /\ first_frame_received_ = FALSE
    /\ worker = [w \in Threads |-> [pc |-> "unborn", frame |-> NoFrame]]
    /\ ctl_pc = "idle"
    /\ rst_pc = "idle"
    /\ rst_pending = {}
    /\ od = OdIdle
    /\ svr = SvrIdle
    /\ notified = [c \in NotifyCodes |-> 0]
    /\ next_id = 0
    /\ dequeued = <<>>
    /\ sent = <<>>
    /\ epoch_id = 0
    /\ corrections = 0
    /\ session_fresh = TRUE
    /\ v_is_initialized_ = FALSE
    /\ v_is_running_ = FALSE
    /\ is_decoder_ready_ = FALSE
    /\ is_display_ready_ = FALSE
    /\ width_ = 1920
    /\ height_ = 1080
    /\ codec_type_ = "H264"
    /\ v_first_frame_received_ = FALSE
    /\ first_frame_pts_ = 0
    /\ first_frame_time_ = 0
    /\ audio_sync_callback_ = FALSE
    /\ vdec = [state |-> "none", width |-> 0, height |-> 0]
    /\ vo = [dev |-> FALSE, layer |-> FALSE, bound |-> FALSE, chn |-> FALSE,
             width |-> 0, height |-> 0]
    /\ vf = VfIdle
    /\ vstop_pc = "idle"
    /\ v_notified = [c \in VideoNotifyCodes |-> 0]
    /\ submitted = <<>>
    /\ v_frames = 0
    /\ v_starts = 0
    /\ v_resets = 0
    /\ bringups = [decoder |-> 0, display |-> 0]
    /\ v_outcome = [n \in FrameIds |-> "none"]
    /\ v_session_fresh = TRUE
    /\ mb = [n \in FrameIds |-> NoBuffer]
    /\ sync_calls = <<>>
    /\ pco = PcoInit
    /\ is_connected_ = FALSE
    /\ is_connecting_ = FALSE
    /\ should_reconnect_ = FALSE
    /\ should_exit_ = FALSE
    /\ reconnect_attempts_ = 0
    /\ message_queue_ = <<>>
    /\ room_id_ = ""
    /\ client_id_ = ""
    /\ wst = WstInit
    /\ conn = "none"
    /\ app = [pc |-> "idle", connects |-> 0, registers |-> 0]
    /\ reg = [t \in RegisterThreads |-> RegIdle]
    /\ queued = <<>>
    /\ written = <<>>
    /\ established = 0
    /\ close_called = FALSE

(***************************************************************************)
(* Owner thread: Initialize, Start, Stop.                                  *)
(***************************************************************************)
\* Initialize -> InitializeAudioDevice: the flag is set when both hardware
\* calls succeed and left as it was when one fails.
\* the state codes Initialize passes to NotifyAudioState, given whether
\* InitializeAudioDevice succeeded: AUDIO_STATE_INITIALIZED on success, none
\* on failure (the failure is written to std::cerr and false is returned)
InitializeNotifies(ok) == IF ok THEN {AUDIO_STATE_INITIALIZED} ELSE {}

\* n after NotifyAudioState was called once with each code of codes
NotifyEach(n, codes) ==
    [c \in DOMAIN n |-> IF c \in codes THEN n[c] + 1 ELSE n[c]]

\* is_device_working_ after Initialize, given whether the device calls of
\* InitializeAudioDevice succeeded: set on success, not written on failure
DeviceWorkingAfterInitialize(ok, working) == IF ok THEN TRUE ELSE working

Initialize ==
    /\ ctl_pc = "idle"
    /\ \E ok \in BOOLEAN :
         /\ is_device_working_' =
                DeviceWorkingAfterInitialize(ok, is_device_working_)
         /\ notified' = NotifyEach(notified, InitializeNotifies(ok))
    /\ UNCHANGED <<signaling_vars, video_vars, svr, sent, now, is_running_, audio_buffer_, video_reference_pts_,
                   video_reference_time_, first_audio_pts_, first_audio_time_,
                   first_frame_received_, worker, ctl_pc, rst_pc, rst_pending,
                   od, next_id, dequeued, epoch_id, corrections,
                   session_fresh>>

\* the thread Start spawns: the next one not yet used
NextThread == Cardinality(Spawned) + 1

\* (variant: Start without its running check)
Mutant_StartNeverReturnsEarly == FALSE

\* Start returns at once when the pipeline is already running
StartReturnsEarly == is_running_

Start ==
    /\ ctl_pc = "idle"
    /\ IF StartReturnsEarly
       THEN UNCHANGED <<is_running_, worker, notified, session_fresh>>
       ELSE /\ NextThread \in Threads
            /\ is_running_' = TRUE
            /\ worker' = [worker EXCEPT ![NextThread] = [pc |-> "loop", frame |-> NoFrame]]
            /\ notified' = NotifyAudioState(notified, AUDIO_STATE_STARTED)
            /\ session_fresh' = TRUE
    /\ UNCHANGED <<signaling_vars, video_vars, svr, sent, now, is_device_working_, audio_buffer_, video_reference_pts_,
                   video_reference_time_, first_audio_pts_, first_audio_time_,
                   first_frame_received_, ctl_pc, rst_pc, rst_pending, od,
                   next_id, dequeued, epoch_id, corrections>>

\* Stop, first step: the running check and is_running_ = false
Stop_Begin ==
    /\ ctl_pc = "idle"
    /\ IF ~is_running_
       THEN UNCHANGED <<is_running_, ctl_pc>>
       ELSE /\ is_running_' = FALSE
            /\ ctl_pc' = "join"
    /\ UNCHANGED <<signaling_vars, video_vars, svr, sent, now, is_device_working_, audio_buffer_, video_reference_pts_,
                   video_reference_time_, first_audio_pts_, first_audio_time_,
                   first_frame_received_, worker, rst_pc, rst_pending, od,
                   notified, next_id, dequeued, epoch_id, corrections,
                   session_fresh>>

\* audio_thread_->join() returns once the worker has left its loop
JoinReturns == Alive = {}

Stop_Join ==
    /\ ctl_pc = "join"
    /\ JoinReturns
    /\ ctl_pc' = "clear"
    /\ UNCHANGED <<signaling_vars, video_vars, svr, sent, now, is_running_, is_device_working_, audio_buffer_,
                   video_reference_pts_, video_reference_time_, first_audio_pts_,
                   first_audio_time_, first_frame_received_, worker, rst_pc,
                   rst_pending, od, notified, next_id, dequeued, epoch_id,
                   corrections,
                   session_fresh>>

\* swap with an empty queue under buffer_mutex_
Stop_Clear ==
    /\ ctl_pc = "clear"
    /\ audio_buffer_' = <<>>
    /\ ctl_pc' = "disable"
    /\ UNCHANGED <<signaling_vars, video_vars, svr, sent, now, is_running_, is_device_working_, video_reference_pts_,
                   video_reference_time_, first_audio_pts_, first_audio_time_,
                   first_frame_received_, worker, rst_pc, rst_pending, od,
                   notified, next_id, dequeued, epoch_id, corrections,
                   session_fresh>>

\* RK_MPI_AO_DisableChn when the device works, then the 'stopped' notification
Stop_Disable ==
    /\ ctl_pc = "disable"
    /\ is_device_working_' = FALSE
    /\ notified' = NotifyAudioState(notified, AUDIO_STATE_STOPPED)
    /\ ctl_pc' = "idle"
    /\ UNCHANGED <<signaling_vars, video_vars, svr, sent, now, is_running_, audio_buffer_, video_reference_pts_,
                   video_reference_time_, first_audio_pts_, first_audio_time_,
                   first_frame_received_, worker, rst_pc, rst_pending, od,
                   next_id, dequeued, epoch_id, corrections,
                   session_fresh>>

(***************************************************************************)
(* Reset, called from the peer connection's signaling thread.              *)
(***************************************************************************)
EpochFields == {"first_frame_received_", "first_audio_pts_", "first_audio_time_"}

\* lock sync_mutex_
Reset_Begin ==
    /\ rst_pc = "idle"
    /\ svr.pc = "idle"
    /\ epoch_id < MaxResets
    /\ rst_pc' = "sync"
    /\ rst_pending' = EpochFields
    /\ UNCHANGED <<signaling_vars, video_vars, svr, sent, now, is_running_, is_device_working_, audio_buffer_,
                   video_reference_pts_, video_reference_time_, first_audio_pts_,
                   first_audio_time_, first_frame_received_, worker, ctl_pc, od,
                   notified, next_id, dequeued, epoch_id, corrections,
                   session_fresh>>

\* One of the three stores made under sync_mutex_.  CalculateAudioPts reads
\* the fields without the mutex, so the stores are visible one at a time and
\* in any order; the store that completes the section releases the mutex.
Reset_Store ==
    /\ rst_pc = "sync"
    /\ \E f \in rst_pending :
        /\ rst_pending' = rst_pending \ {f}
        /\ first_frame_received_' =
              (IF f = "first_frame_received_" THEN FALSE ELSE first_frame_received_)
        /\ first_audio_pts_' = (IF f = "first_audio_pts_" THEN 0 ELSE first_audio_pts_)
        /\ first_audio_time_' = (IF f = "first_audio_time_" THEN 0 ELSE first_audio_time_)
        /\ IF rst_pending = {f}
           THEN /\ rst_pc' = "clear"
                /\ epoch_id' = epoch_id + 1
                /\ session_fresh' = TRUE
           ELSE UNCHANGED <<rst_pc, epoch_id, session_fresh>>
    /\ UNCHANGED <<signaling_vars, video_vars, svr, sent, now, is_running_, is_device_working_, audio_buffer_,
                   video_reference_pts_, video_reference_time_, worker, ctl_pc,
                   od, notified, next_id, dequeued, corrections>>

\* (variant: Reset leaves the queue as it is)
Mutant_ResetKeepsQueue(q) == q

\* the queue after Reset swapped it with an empty one
BufferAfterReset(q) == <<>>

\* swap with an empty queue under buffer_mutex_, then the 'sync reset' notification
Reset_Clear ==
    /\ rst_pc = "clear"
    /\ audio_buffer_' = BufferAfterReset(audio_buffer_)
    /\ notified' = NotifyAudioState(notified, AUDIO_STATE_SYNC_RESET)
    /\ rst_pc' = "idle"
    /\ UNCHANGED <<signaling_vars, video_vars, svr, sent, now, is_running_, is_device_working_, video_reference_pts_,
                   video_reference_time_, first_audio_pts_, first_audio_time_,
                   first_frame_received_, worker, ctl_pc, rst_pending, od,
                   next_id, dequeued, epoch_id, corrections,
                   session_fresh>>

(***************************************************************************)
(* Delivery thread: OnData and CalculateAudioPts.                          *)
(***************************************************************************)
\* (variant: the overflow check written with > instead of >=)
Mutant_OverflowCheckOffByOne(q) ==
    IF Len(q) > max_buffer_size_ THEN Tail(q) ELSE q

\* (variant: a full queue drops its newest frame instead of its oldest)
Mutant_OverflowDropsNewest(q) ==
    IF Len(q) >= max_buffer_size_ THEN SubSeq(q, 1, Len(q) - 1) ELSE q

\* GetCurrentDelayMs, under buffer_mutex_: 0 for an empty queue, otherwise
\* the queue size times 10 ms
GetCurrentDelayMs(q) == IF q = <<>> THEN 0 ELSE Len(q) * ChunkMs

\* the queue after the overflow check of OnData
BufferAfterOverflowCheck(q) ==
    IF Len(q) >= max_buffer_size_ THEN Tail(q) ELSE q

\* (variant: the frame is put at the front of the queue)
Mutant_PushFront(q, f) == <<f>> \o q

\* the queue after OnData has pushed frame f
BufferAfterPush(q, f) == Append(q, f)

\* OnData returns at once unless the pipeline runs (is_paused_ is never set)
OnDataReturnsEarly == ~is_running_

\* the running check; a chunk that passes it is counted against MaxChunks
OnData_Check ==
    /\ od.pc = "idle"
    /\ IF OnDataReturnsEarly
       THEN UNCHANGED od
       ELSE /\ next_id + 1 <= MaxChunks
            /\ od' = [od EXCEPT !.pc = "overflow"]
    /\ UNCHANGED <<signaling_vars, video_vars, svr, sent, now, is_running_, is_device_working_, audio_buffer_,
                   video_reference_pts_, video_reference_time_, first_audio_pts_,
                   first_audio_time_, first_frame_received_, worker, ctl_pc,
                   rst_pc, rst_pending, notified, next_id, dequeued, epoch_id,
                   corrections,
                   session_fresh>>

\* under buffer_mutex_: drop the oldest frame of a full queue and notify
OnData_Overflow ==
    /\ od.pc = "overflow"
    /\ audio_buffer_' = BufferAfterOverflowCheck(audio_buffer_)
    /\ notified' = IF Len(audio_buffer_) >= max_buffer_size_
                   THEN NotifyAudioState(notified, AUDIO_STATE_BUFFER_OVERFLOW)
                   ELSE notified
    /\ od' = [od EXCEPT !.pc = "pts_flag"]
    /\ UNCHANGED <<signaling_vars, video_vars, svr, sent, now, is_running_, is_device_working_, video_reference_pts_,
                   video_reference_time_, first_audio_pts_, first_audio_time_,
                   first_frame_received_, worker, ctl_pc, rst_pc, rst_pending,
                   next_id, dequeued, epoch_id, corrections,
                   session_fresh>>

\* CalculateAudioPts: current_time = GetCurrentTimeMs() and the unlocked read
\* of first_frame_received_
Pts_ReadFlag ==
    /\ od.pc = "pts_flag"
    /\ od' = [od EXCEPT !.current_time = now,
                        !.epoch = epoch_id,
                        !.pc = IF first_frame_received_ THEN "pts_time" ELSE "pts_first"]
    /\ UNCHANGED <<signaling_vars, video_vars, svr, sent, now, is_running_, is_device_working_, audio_buffer_,
                   video_reference_pts_, video_reference_time_, first_audio_pts_,
                   first_audio_time_, first_frame_received_, worker, ctl_pc,
                   rst_pc, rst_pending, notified, next_id, dequeued, epoch_id,
                   corrections,
                   session_fresh>>

\* the PTS of the first chunk: the video reference's PTS when a reference
\* exists, 0 otherwise
FirstPts == IF video_reference_time_ > 0 THEN video_reference_pts_ ELSE 0

\* first chunk, under sync_mutex_: the epoch is the chunk's wall-clock time
Pts_First ==
    /\ od.pc = "pts_first"
    /\ SyncMutexFree
    /\ first_frame_received_' = TRUE
    /\ first_audio_time_' = od.current_time
    /\ first_audio_pts_' = FirstPts
    /\ od' = [od EXCEPT !.pts = FirstPts, !.epoch = epoch_id, !.pc = "push"]
    /\ session_fresh' = FALSE
    /\ UNCHANGED <<signaling_vars, video_vars, svr, sent, now, is_running_, is_device_working_, audio_buffer_,
                   video_reference_pts_, video_reference_time_, worker, ctl_pc,
                   rst_pc, rst_pending, notified, next_id, dequeued, epoch_id,
                   corrections>>

\* elapsed = current_time - first_audio_time_, read without sync_mutex_
Pts_ReadTime ==
    /\ od.pc = "pts_time"
    /\ od' = [od EXCEPT !.elapsed = od.current_time - first_audio_time_,
                        !.pc = "pts_base"]
    /\ UNCHANGED <<signaling_vars, video_vars, svr, sent, now, is_running_, is_device_working_, audio_buffer_,
                   video_reference_pts_, video_reference_time_, first_audio_pts_,
                   first_audio_time_, first_frame_received_, worker, ctl_pc,
                   rst_pc, rst_pending, notified, next_id, dequeued, epoch_id,
                   corrections,
                   session_fresh>>

\* pts = first_audio_pts_ + elapsed, read without sync_mutex_
Pts_ReadBase ==
    /\ od.pc = "pts_base"
    /\ od' = [od EXCEPT !.pts = first_audio_pts_ + od.elapsed, !.pc = "pts_sync"]
    /\ UNCHANGED <<signaling_vars, video_vars, svr, sent, now, is_running_, is_device_working_, audio_buffer_,
                   video_reference_pts_, video_reference_time_, first_audio_pts_,
                   first_audio_time_, first_frame_received_, worker, ctl_pc,
                   rst_pc, rst_pending, notified, next_id, dequeued, epoch_id,
                   corrections,
                   session_fresh>>

\* pts_diff = pts - (video_reference_pts_ + current_time - video_reference_time_)
PtsDiff(pts, current_time) ==
    pts - (video_reference_pts_ + (current_time - video_reference_time_))

\* (variant: the correction without the check that a reference exists)
Mutant_NeedsCorrectionWithoutReference(pts, current_time) ==
    Abs(PtsDiff(pts, current_time)) > target_delay_ms_

\* a correction is due when a reference exists and the difference exceeds
\* the target delay
NeedsCorrection(pts, current_time) ==
    /\ video_reference_time_ > 0
    /\ Abs(PtsDiff(pts, current_time)) > target_delay_ms_

\* pts -= pts_diff / 4
CorrectedPts(pts, current_time) ==
    pts - TruncDiv(PtsDiff(pts, current_time), 4)

\* (variant: the epoch is left where it was, so the correction is a one-off)
Mutant_ReanchorNothing(pts, elapsed) == first_audio_pts_

\* the re-anchored epoch: first_audio_pts_ = pts - elapsed, pts as corrected
ReanchoredBase(pts, elapsed) == pts - elapsed

\* drift correction, under sync_mutex_
Pts_Sync ==
    /\ od.pc = "pts_sync"
    /\ SyncMutexFree
    /\ IF NeedsCorrection(od.pts, od.current_time)
       THEN /\ od' = [od EXCEPT !.pts = CorrectedPts(od.pts, od.current_time),
                                !.pc = "push"]
            /\ first_audio_pts_' =
                 ReanchoredBase(CorrectedPts(od.pts, od.current_time), od.elapsed)
            /\ corrections' = corrections + 1
       ELSE /\ od' = [od EXCEPT !.pc = "push"]
            /\ UNCHANGED <<first_audio_pts_, corrections>>
    /\ session_fresh' = FALSE
    /\ UNCHANGED <<signaling_vars, video_vars, svr, sent, now, is_running_, is_device_working_, audio_buffer_,
                   video_reference_pts_, video_reference_time_,
                   first_audio_time_, first_frame_received_, worker, ctl_pc,
                   rst_pc, rst_pending, notified, next_id, dequeued, epoch_id>>

\* under buffer_mutex_: push the frame
OnData_Push ==
    /\ od.pc = "push"
    /\ audio_buffer_' =
         BufferAfterPush(audio_buffer_,
                         [id |-> next_id + 1, pts |-> od.pts, epoch |-> od.epoch])
    /\ next_id' = next_id + 1
    /\ od' = OdIdle
    /\ UNCHANGED <<signaling_vars, video_vars, svr, sent, now, is_running_, is_device_working_, video_reference_pts_,
                   video_reference_time_, first_audio_pts_, first_audio_time_,
                   first_frame_received_, worker, ctl_pc, rst_pc, rst_pending,
                   notified, dequeued, epoch_id, corrections,
                   session_fresh>>

(***************************************************************************)
(* Worker thread: AudioProcessingThread.                                   *)
(***************************************************************************)
\* while (is_running_)
Worker_Loop(w) ==
    /\ worker[w].pc = "loop"
    /\ worker' = [worker EXCEPT ![w].pc = IF is_running_ THEN "dequeue" ELSE "exited"]
    /\ UNCHANGED <<signaling_vars, video_vars, svr, sent, now, is_running_, is_device_working_, audio_buffer_,
                   video_reference_pts_, video_reference_time_, first_audio_pts_,
                   first_audio_time_, first_frame_received_, ctl_pc, rst_pc,
                   rst_pending, od, notified, next_id, dequeued, epoch_id,
                   corrections,
                   session_fresh>>

\* under buffer_mutex_: take the front frame when there is one
Worker_Dequeue(w) ==
    /\ worker[w].pc = "dequeue"
    /\ IF audio_buffer_ # <<>>
       THEN /\ worker' = [worker EXCEPT ![w] = [pc |-> "send", frame |-> Head(audio_buffer_)]]
            /\ audio_buffer_' = Tail(audio_buffer_)
            /\ dequeued' = Append(dequeued, Head(audio_buffer_).id)
       ELSE /\ worker' = [worker EXCEPT ![w].pc = "wait"]
            /\ UNCHANGED <<audio_buffer_, dequeued>>
    /\ UNCHANGED <<signaling_vars, video_vars, svr, sent, now, is_running_, is_device_working_, video_reference_pts_,
                   video_reference_time_, first_audio_pts_, first_audio_time_,
                   first_frame_received_, ctl_pc, rst_pc, rst_pending, od,
                   notified, next_id, epoch_id, corrections,
                   session_fresh>>

\* (variant: SendAudioFrameToDevice without its check of the device flag)
Mutant_SendIgnoresDeviceFlag == BOOLEAN

\* the outcomes of SendAudioFrameToDevice: false when the device does not
\* work; otherwise RK_MPI_MB_CreateBuffer and RK_MPI_AO_SendFrame succeed or
\* fail as the hardware decides
SendOutcomes == IF is_device_working_ THEN BOOLEAN ELSE {FALSE}

\* (variant: the worker leaves its loop when a submission fails)
Mutant_WorkerExitsOnFailure(ok) == IF ok THEN "loop" ELSE "exited"

\* where the worker goes after SendAudioFrameToDevice has returned ok
WorkerAfterSend(ok) == "loop"

\* SendAudioFrameToDevice and, when it fails, the 'device error'
\* notification; either way the frame is gone and the loop goes on
Worker_Send(w) ==
    /\ worker[w].pc = "send"
    /\ \E ok \in SendOutcomes :
         /\ worker' = [worker EXCEPT ![w] = [pc |-> WorkerAfterSend(ok),
                                             frame |-> NoFrame]]
         /\ sent' = Append(sent, [id |-> worker[w].frame.id, ok |-> ok])
         /\ notified' = IF ok THEN notified
                        ELSE NotifyAudioState(notified, AUDIO_STATE_DEVICE_ERROR)
    /\ UNCHANGED <<signaling_vars, video_vars, svr, now, is_running_, is_device_working_, audio_buffer_,
                   video_reference_pts_, video_reference_time_, first_audio_pts_,
                   first_audio_time_, first_frame_received_, ctl_pc, rst_pc,
                   rst_pending, od, next_id, dequeued, epoch_id,
                   corrections,
                   session_fresh>>

\* empty queue: sleep 5 ms, look again (underflow notification), loop
Worker_Wait(w) ==
    /\ worker[w].pc = "wait"
    /\ worker' = [worker EXCEPT ![w].pc = "loop"]
    /\ UNCHANGED <<signaling_vars, video_vars, svr, sent, now, is_running_, is_device_working_, audio_buffer_,
                   video_reference_pts_, video_reference_time_, first_audio_pts_,
                   first_audio_time_, first_frame_received_, ctl_pc, rst_pc,
                   rst_pending, od, notified, next_id, dequeued, epoch_id,
                   corrections,
                   session_fresh>>

(***************************************************************************)
(* Sync bridge and wall clock.                                             *)
(***************************************************************************)
\* the body of SetVideoReference: lock sync_mutex_, store the reference
StoreVideoReference(video_pts, system_time) ==
    /\ SyncMutexFree
    /\ video_reference_pts_' = video_pts
    /\ video_reference_time_' = system_time

\* SetVideoReference, under sync_mutex_: the video thread reports the PTS of
\* a frame and the wall-clock time at which it handled the frame
SetVideoReference(video_pts, system_time) ==
    /\ StoreVideoReference(video_pts, system_time)
    /\ UNCHANGED <<signaling_vars, video_vars, svr, sent, now, is_running_, is_device_working_, audio_buffer_,
                   first_audio_pts_, first_audio_time_, first_frame_received_,
                   worker, ctl_pc, rst_pc, rst_pending, od, notified, next_id,
                   dequeued, epoch_id, corrections,
                   session_fresh>>

\* SetVideoReference, step by step: lock sync_mutex_
SetVideoReference_Lock(video_pts, system_time) ==
    /\ svr.pc = "idle"
    /\ rst_pc # "sync"
    /\ svr' = [pc |-> "pts", video_pts |-> video_pts,
               system_time |-> system_time,
               old |-> <<svr.video_pts, svr.system_time>>]
    /\ UNCHANGED <<signaling_vars, video_vars, sent, now, is_running_, is_device_working_,
                   audio_buffer_, video_reference_pts_, video_reference_time_,
                   first_audio_pts_, first_audio_time_, first_frame_received_,
                   worker, ctl_pc, rst_pc, rst_pending, od, notified, next_id,
                   dequeued, epoch_id, corrections, session_fresh>>

\* video_reference_pts_ = video_pts
SetVideoReference_StorePts ==
    /\ svr.pc = "pts"
    /\ video_reference_pts_' = svr.video_pts
    /\ svr' = [svr EXCEPT !.pc = "time"]
    /\ UNCHANGED <<signaling_vars, video_vars, sent, now, is_running_, is_device_working_,
                   audio_buffer_, video_reference_time_, first_audio_pts_,
                   first_audio_time_, first_frame_received_, worker, ctl_pc,
                   rst_pc, rst_pending, od, notified, next_id, dequeued,
                   epoch_id, corrections, session_fresh>>

\* video_reference_time_ = system_time, and sync_mutex_ is released
SetVideoReference_StoreTime ==
    /\ svr.pc = "time"
    /\ video_reference_time_' = svr.system_time
    /\ svr' = [svr EXCEPT !.pc = "idle"]
    /\ UNCHANGED <<signaling_vars, video_vars, sent, now, is_running_, is_device_working_,
                   audio_buffer_, video_reference_pts_, first_audio_pts_,
                   first_audio_time_, first_frame_received_, worker, ctl_pc,
                   rst_pc, rst_pending, od, notified, next_id, dequeued,
                   epoch_id, corrections, session_fresh>>

\* the instant that follows t
NextTimePoint(t) ==
    CHOOSE u \in TimePoints : u > t /\ \A v \in TimePoints : v > t => u <= v

\* the wall clock advances to the next instant
Tick ==
    /\ \E u \in TimePoints : u > now
    /\ now' = NextTimePoint(now)
    /\ UNCHANGED <<signaling_vars, audio_vars, video_vars>>

(***************************************************************************)
(* Spec: the audio pipeline with all its threads running concurrently,     *)
(* within one millisecond of wall-clock time.                              *)
(***************************************************************************)
Next ==
    \/ Initialize
    \/ Start
    \/ Stop_Begin
    \/ Stop_Join
    \/ Stop_Clear
    \/ Stop_Disable
    \/ Reset_Begin
    \/ Reset_Store
    \/ Reset_Clear
    \/ OnData_Check
    \/ OnData_Overflow
    \/ Pts_ReadFlag
    \/ Pts_First
    \/ Pts_ReadTime
    \/ Pts_ReadBase
    \/ Pts_Sync
    \/ OnData_Push
    \/ \E w \in Threads : Worker_Loop(w)
    \/ \E w \in Threads : Worker_Dequeue(w)
    \/ \E w \in Threads : Worker_Send(w)
    \/ \E w \in Threads : Worker_Wait(w)

Spec == Init /\ [][Next]_vars

(***************************************************************************)
(* SpecPts: the timing of the audio pipeline.  The wall clock advances and *)
(* the video thread updates the reference at any moment; the owner's calls *)
(* (Start, Stop, Reset) begin only between two deliveries and a delivery   *)
(* begins only between two calls.  The worker is slow: it is scheduled     *)
(* only when Stop waits for it, so the queue shows the chunks as they were *)
(* delivered.                                                              *)
(***************************************************************************)
NoCallInProgress == ctl_pc = "idle" /\ rst_pc = "idle"
NoDeliveryInProgress == od.pc = "idle"

NextPts ==
    \/ Tick
    \/ \E video_pts \in VideoPtsSet : SetVideoReference(video_pts, now)
    \/ NoDeliveryInProgress /\ Start
    \/ NoDeliveryInProgress /\ Stop_Begin
    \/ Stop_Join
    \/ Stop_Clear
    \/ Stop_Disable
    \/ NoDeliveryInProgress /\ Reset_Begin
    \/ Reset_Store
    \/ Reset_Clear
    \/ NoCallInProgress /\ OnData_Check
    \/ OnData_Overflow
    \/ Pts_ReadFlag
    \/ Pts_First
    \/ Pts_ReadTime
    \/ Pts_ReadBase
    \/ Pts_Sync
    \/ OnData_Push
    \/ \E w \in Threads : ctl_pc = "join" /\ Worker_Loop(w)

SpecPts == Init /\ [][NextPts]_vars

(***************************************************************************)
(* SpecReset: the audio pipeline of Spec with the sync bridge: the video   *)
(* thread stores a reference at any moment at which sync_mutex_ is free.   *)
(***************************************************************************)
NextReset ==
    \/ Next
    \/ \E video_pts \in VideoPtsSet : SetVideoReference(video_pts, now)

SpecReset == Init /\ [][NextReset]_vars

(***************************************************************************)
(* SpecSync: the sync bridge.  The video thread executes SetVideoReference *)
(* store by store while the delivery thread computes the PTS of the chunks *)
(* of one session; the wall clock advances at any moment.                  *)
(***************************************************************************)
NextSync ==
    \/ Tick
    \/ \E video_pts \in SyncPtsSet : SetVideoReference_Lock(video_pts, now)
    \/ SetVideoReference_StorePts
    \/ SetVideoReference_StoreTime
    \/ Start
    \/ OnData_Check
    \/ OnData_Overflow
    \/ Pts_ReadFlag
    \/ Pts_First
    \/ Pts_ReadTime
    \/ Pts_ReadBase
    \/ Pts_Sync
    \/ OnData_Push

SpecSync == Init /\ [][NextSync]_vars

(***************************************************************************)
(* EncodedVideoFrameHandler.  The hardware calls (RK_MPI_...) succeed or   *)
(* fail as the hardware decides; what a successful call does to the        *)
(* decoder channel and to the display is recorded in vdec and vo.          *)
(***************************************************************************)
NotifyVideoState(n, code) ==
    IF code \in VideoNotifyCodes THEN [n EXCEPT ![code] = @ + 1] ELSE n

\* the decoder channel exists and receives the stream
DecoderUp == vdec.state = "receiving"
\* the display device and layer are enabled, the decoder is bound to the
\* layer and the display channel has not been disabled since
DisplayUp == vo.dev /\ vo.layer /\ vo.bound /\ vo.chn

\* the value Initialize returns: true from the early return of an initialized
\* pipeline, true at the end of the function
InitializeReturns(initialized) == IF initialized THEN TRUE ELSE TRUE

\* Initialize: records the configuration, brings up no hardware
VideoInitialize ==
    /\ vstop_pc = "idle"
    /\ IF v_is_initialized_
       THEN UNCHANGED <<v_is_initialized_, width_, height_, codec_type_,
                        is_decoder_ready_, is_display_ready_, v_notified>>
       ELSE \E c \in VideoConfigs :
              /\ width_' = c.width
              /\ height_' = c.height
              /\ codec_type_' = c.codec_type
              /\ v_is_initialized_' = TRUE
              /\ is_decoder_ready_' = FALSE
              /\ is_display_ready_' = FALSE
              /\ v_notified' = NotifyVideoState(v_notified, VIDEO_STATE_INITIALIZED)
    /\ UNCHANGED <<signaling_vars, now, audio_vars, bringups, v_outcome, v_session_fresh, mb, sync_calls,
                   v_is_running_, v_first_frame_received_,
                   first_frame_pts_, first_frame_time_, audio_sync_callback_,
                   vdec, vo, vf, vstop_pc, submitted, v_frames, v_starts,
                   v_resets>>

\* Start: fails when not initialized, returns at once when running
VideoStart ==
    /\ vstop_pc = "idle"
    /\ IF ~v_is_initialized_ \/ v_is_running_
       THEN UNCHANGED <<v_is_running_, v_notified, v_starts, bringups,
                        v_session_fresh>>
       ELSE /\ v_starts < MaxVideoStarts
            /\ v_is_running_' = TRUE
            /\ v_notified' = NotifyVideoState(v_notified, VIDEO_STATE_STARTED)
            /\ v_starts' = v_starts + 1
            /\ bringups' = [decoder |-> 0, display |-> 0]
            /\ v_session_fresh' = TRUE
    /\ UNCHANGED <<signaling_vars, now, audio_vars, v_outcome, mb, sync_calls,
                   v_is_initialized_, is_decoder_ready_,
                   is_display_ready_, width_, height_, codec_type_,
                   v_first_frame_received_, first_frame_pts_,
                   first_frame_time_, audio_sync_callback_, vdec, vo, vf,
                   vstop_pc, submitted, v_frames, v_resets>>

\* Stop, first step: the running check and is_running_ = false
VideoStop_Begin ==
    /\ vstop_pc = "idle"
    /\ IF ~v_is_running_
       THEN UNCHANGED <<v_is_running_, vstop_pc>>
       ELSE /\ v_is_running_' = FALSE
            /\ vstop_pc' = "decoder"
    /\ UNCHANGED <<signaling_vars, now, audio_vars, bringups, v_outcome, v_session_fresh, mb, sync_calls,
                   v_is_initialized_, is_decoder_ready_,
                   is_display_ready_, width_, height_, codec_type_,
                   v_first_frame_received_, first_frame_pts_,
                   first_frame_time_, audio_sync_callback_, vdec, vo, vf,
                   v_notified, submitted, v_frames, v_starts, v_resets>>

\* (variant: Stop tears the decoder down whatever its ready flag says)
Mutant_StopIgnoresDecoderFlag == TRUE

\* the condition under which Stop tears the decoder channel down
StopTearsDownDecoder == is_decoder_ready_

\* a decoder channel after RK_MPI_VDEC_StopRecvStream: a receiving channel
\* stops receiving and stays created
ChannelAfterStopRecv(state) == IF state = "receiving" THEN "created" ELSE state

\* if (is_decoder_ready_): RK_MPI_VDEC_StopRecvStream
VideoStop_Decoder ==
    /\ vstop_pc = "decoder"
    /\ IF StopTearsDownDecoder
       THEN /\ vdec' = [vdec EXCEPT !.state = ChannelAfterStopRecv(@)]
            /\ vstop_pc' = "decoder_destroy"
       ELSE /\ vstop_pc' = "display"
            /\ UNCHANGED vdec
    /\ UNCHANGED <<signaling_vars, now, audio_vars, bringups, v_outcome, v_session_fresh, mb, sync_calls,
                   v_is_initialized_, v_is_running_,
                   is_decoder_ready_, is_display_ready_, width_, height_,
                   codec_type_, v_first_frame_received_, first_frame_pts_,
                   first_frame_time_, audio_sync_callback_, vo, vf, v_notified,
                   submitted, v_frames, v_starts, v_resets>>

\* RK_MPI_VDEC_DestroyChn
VideoStop_DecoderDestroy ==
    /\ vstop_pc = "decoder_destroy"
    /\ vdec' = [vdec EXCEPT !.state = "none"]
    /\ vstop_pc' = "decoder_flag"
    /\ UNCHANGED <<signaling_vars, now, audio_vars, bringups, v_outcome, v_session_fresh, mb, sync_calls,
                   v_is_initialized_, v_is_running_,
                   is_decoder_ready_, is_display_ready_, width_, height_,
                   codec_type_, v_first_frame_received_, first_frame_pts_,
                   first_frame_time_, audio_sync_callback_, vo, vf, v_notified,
                   submitted, v_frames, v_starts, v_resets>>

\* is_decoder_ready_ = false
VideoStop_DecoderFlag ==
    /\ vstop_pc = "decoder_flag"
    /\ is_decoder_ready_' = FALSE
    /\ vstop_pc' = "display"
    /\ UNCHANGED <<signaling_vars, now, audio_vars, bringups, v_outcome, v_session_fresh, mb, sync_calls,
                   v_is_initialized_, v_is_running_,
                   is_display_ready_, width_, height_, codec_type_,
                   v_first_frame_received_, first_frame_pts_,
                   first_frame_time_, audio_sync_callback_, vdec, vo, vf,
                   v_notified, submitted, v_frames, v_starts, v_resets>>

\* if (is_display_ready_): RK_MPI_VO_DisableChn
VideoStop_Display ==
    /\ vstop_pc = "display"
    /\ IF is_display_ready_
       THEN /\ vo' = [vo EXCEPT !.chn = FALSE]
            /\ vstop_pc' = "display_flag"
       ELSE /\ vstop_pc' = "notify"
            /\ UNCHANGED vo
    /\ UNCHANGED <<signaling_vars, now, audio_vars, bringups, v_outcome, v_session_fresh, mb, sync_calls,
                   v_is_initialized_, v_is_running_,
                   is_decoder_ready_, is_display_ready_, width_, height_,
                   codec_type_, v_first_frame_received_, first_frame_pts_,
                   first_frame_time_, audio_sync_callback_, vdec, vf,
                   v_notified, submitted, v_frames, v_starts, v_resets>>

\* is_display_ready_ = false
VideoStop_DisplayFlag ==
    /\ vstop_pc = "display_flag"
    /\ is_display_ready_' = FALSE
    /\ vstop_pc' = "notify"
    /\ UNCHANGED <<signaling_vars, now, audio_vars, bringups, v_outcome, v_session_fresh, mb, sync_calls,
                   v_is_initialized_, v_is_running_,
                   is_decoder_ready_, width_, height_, codec_type_,
                   v_first_frame_received_, first_frame_pts_,
                   first_frame_time_, audio_sync_callback_, vdec, vo, vf,
                   v_notified, submitted, v_frames, v_starts, v_resets>>

\* the 'stopped' notification; Stop returns
VideoStop_Notify ==
    /\ vstop_pc = "notify"
    /\ v_notified' = NotifyVideoState(v_notified, VIDEO_STATE_STOPPED)
    /\ vstop_pc' = "idle"
    /\ UNCHANGED <<signaling_vars, now, audio_vars, bringups, v_outcome, v_session_fresh, mb, sync_calls,
                   v_is_initialized_, v_is_running_,
                   is_decoder_ready_, is_display_ready_, width_, height_,
                   codec_type_, v_first_frame_received_, first_frame_pts_,
                   first_frame_time_, audio_sync_callback_, vdec, vo, vf,
                   submitted, v_frames, v_starts, v_resets>>

\* Reset: the first-frame state is cleared under the handler's sync_mutex_,
\* which no thread holds across steps; then the 'sync reset' notification
VideoReset ==
    /\ v_resets < MaxVideoResets
    /\ v_first_frame_received_' = FALSE
    /\ first_frame_pts_' = 0
    /\ first_frame_time_' = 0
    /\ v_notified' = NotifyVideoState(v_notified, VIDEO_STATE_SYNC_RESET)
    /\ v_resets' = v_resets + 1
    /\ v_session_fresh' = TRUE
    /\ UNCHANGED <<signaling_vars, now, audio_vars, bringups, v_outcome, mb, sync_calls,
                   v_is_initialized_, v_is_running_,
                   is_decoder_ready_, is_display_ready_, width_, height_,
                   codec_type_, audio_sync_callback_, vdec, vo, vf, vstop_pc,
                   submitted, v_frames, v_starts>>

\* SetAudioSyncCallback, called when the video track is processed: the
\* callback forwards to AudioReceiver::SetVideoReference
SetAudioSyncCallback ==
    /\ audio_sync_callback_' = TRUE
    /\ UNCHANGED <<signaling_vars, now, audio_vars, bringups, v_outcome, v_session_fresh, mb, sync_calls,
                   v_is_initialized_, v_is_running_,
                   is_decoder_ready_, is_display_ready_, width_, height_,
                   codec_type_, v_first_frame_received_, first_frame_pts_,
                   first_frame_time_, vdec, vo, vf, vstop_pc, v_notified,
                   submitted, v_frames, v_starts, v_resets>>

(***************************************************************************)
(* Decoder thread: VideoFrameTransformer::Transform, OnEncodedImage,       *)
(* InitializeDecoder, InitializeDisplay, DecodeAndDisplayFrame.            *)
(***************************************************************************)
\* Transform builds the webrtc::EncodedImage handed to OnEncodedImage: it
\* copies the data, sets capture_time_ms_ from the frame's presentation
\* timestamp and the frame type; it sets neither the encoded width and
\* height nor the presentation timestamp, which keep the values of a fresh
\* EncodedImage (0, 0 and none)
Transform(u) ==
    [encodedWidth |-> 0, encodedHeight |-> 0,
     capture_time_ms_ |-> u.pts,
     presentation_timestamp |-> <<>>,
     key |-> u.key]

\* encoded_image.PresentationTimestamp().value_or(Timestamp::MinusInfinity()).ms()
PresentationMs(image) ==
    IF image.presentation_timestamp = <<>>
    THEN MinusInfinityMs
    ELSE image.presentation_timestamp[1]

\* the call for the n-th access unit returns
Returns(n, outcome) == v_outcome' = [v_outcome EXCEPT ![n] = outcome]

\* OnEncodedImage returns at once unless the pipeline runs
OnEncodedImageReturnsEarly == ~v_is_running_

\* Transform and the running check of OnEncodedImage; an access unit that
\* passes the check is counted against the limit
OnEncodedImage_Call(limit) ==
    /\ vf.pc = "idle"
    /\ IF OnEncodedImageReturnsEarly
       THEN UNCHANGED <<vf, v_frames>>
       ELSE /\ v_frames < limit
            /\ \E u \in Frames :
                 vf' = [pc |-> "ready", n |-> v_frames + 1, unit |-> u,
                        frame |-> Transform(u), current_time |-> 0,
                        first |-> FALSE, cb |-> audio_sync_callback_]
            /\ v_frames' = v_frames + 1
    /\ UNCHANGED <<signaling_vars, now, audio_vars, bringups, v_outcome, v_session_fresh, mb,
                   sync_calls, v_is_initialized_, v_is_running_,
                   is_decoder_ready_, is_display_ready_, width_, height_,
                   codec_type_, v_first_frame_received_, first_frame_pts_,
                   first_frame_time_, audio_sync_callback_, vdec, vo, vstop_pc,
                   v_notified, submitted, v_starts, v_resets>>

\* at most MaxFrames access units are delivered
OnEncodedImage_Check == OnEncodedImage_Call(MaxFrames)

\* at most MaxRestartFrames access units are delivered
OnEncodedImage_CheckRestart == OnEncodedImage_Call(MaxRestartFrames)

\* the hardware is brought up when the decoder or the display is not ready
NeedsBringUp == ~is_decoder_ready_ \/ ~is_display_ready_

\* if (!is_decoder_ready_ || !is_display_ready_): take the resolution of the
\* encoded image and bring the hardware up
OnEncodedImage_Ready ==
    /\ vf.pc = "ready"
    /\ IF NeedsBringUp
       THEN /\ width_' = vf.frame.encodedWidth
            /\ height_' = vf.frame.encodedHeight
            /\ vf' = [vf EXCEPT !.pc = "vdec_create"]
       ELSE /\ vf' = [vf EXCEPT !.pc = "decode"]
            /\ UNCHANGED <<width_, height_>>
    /\ UNCHANGED <<signaling_vars, now, audio_vars, bringups, v_outcome, v_session_fresh, mb,
                   sync_calls, v_is_initialized_, v_is_running_,
                   is_decoder_ready_, is_display_ready_, codec_type_,
                   v_first_frame_received_, first_frame_pts_,
                   first_frame_time_, audio_sync_callback_, vdec, vo, vstop_pc,
                   v_notified, submitted, v_frames, v_starts, v_resets>>

\* InitializeDecoder: an unsupported codec fails; RK_MPI_VDEC_CreateChn with
\* width_ x height_
InitializeDecoder_Create ==
    /\ vf.pc = "vdec_create"
    /\ \E ok \in BOOLEAN :
         IF codec_type_ \in {"H264", "H265"} /\ ok
         THEN /\ vdec' = [state |-> "created", width |-> width_, height |-> height_]
              /\ vf' = [vf EXCEPT !.pc = "vdec_start"]
              /\ UNCHANGED v_outcome
         ELSE /\ vf' = VfIdle
              /\ Returns(vf.n, "bringup_failed")
              /\ UNCHANGED vdec
    /\ UNCHANGED <<signaling_vars, now, audio_vars, bringups, v_session_fresh, mb, sync_calls,
                   v_is_initialized_, v_is_running_, is_decoder_ready_,
                   is_display_ready_, width_, height_, codec_type_,
                   v_first_frame_received_, first_frame_pts_,
                   first_frame_time_, audio_sync_callback_, vo, vstop_pc,
                   v_notified, submitted, v_frames, v_starts, v_resets>>

\* RK_MPI_VDEC_StartRecvStream, which needs the channel to exist; on failure
\* the channel is destroyed; on success is_decoder_ready_ = true
InitializeDecoder_StartRecv ==
    /\ vf.pc = "vdec_start"
    /\ \E ok \in BOOLEAN :
         IF ok /\ vdec.state # "none"
         THEN /\ vdec' = [vdec EXCEPT !.state = "receiving"]
              /\ is_decoder_ready_' = TRUE
              /\ bringups' = [bringups EXCEPT !.decoder = @ + 1]
              /\ vf' = [vf EXCEPT !.pc = "vo_device"]
              /\ UNCHANGED v_outcome
         ELSE /\ vdec' = [vdec EXCEPT !.state = "none"]
              /\ vf' = VfIdle
              /\ Returns(vf.n, "bringup_failed")
              /\ UNCHANGED <<is_decoder_ready_, bringups>>
    /\ UNCHANGED <<signaling_vars, now, audio_vars, v_session_fresh, mb, sync_calls,
                   v_is_initialized_, v_is_running_, is_display_ready_,
                   width_, height_, codec_type_, v_first_frame_received_,
                   first_frame_pts_, first_frame_time_, audio_sync_callback_,
                   vo, vstop_pc, v_notified, submitted, v_frames, v_starts,
                   v_resets>>

\* InitializeDisplay: RK_MPI_VO_SetPubAttr and RK_MPI_VO_Enable
InitializeDisplay_Device ==
    /\ vf.pc = "vo_device"
    /\ \E ok \in BOOLEAN :
         IF ok
         THEN /\ vo' = [vo EXCEPT !.dev = TRUE]
              /\ vf' = [vf EXCEPT !.pc = "vo_layer"]
              /\ UNCHANGED v_outcome
         ELSE /\ vf' = VfIdle
              /\ Returns(vf.n, "bringup_failed")
              /\ UNCHANGED vo
    /\ UNCHANGED <<signaling_vars, now, audio_vars, bringups, v_session_fresh, mb, sync_calls,
                   v_is_initialized_, v_is_running_, is_decoder_ready_,
                   is_display_ready_, width_, height_, codec_type_,
                   v_first_frame_received_, first_frame_pts_,
                   first_frame_time_, audio_sync_callback_, vdec, vstop_pc,
                   v_notified, submitted, v_frames, v_starts, v_resets>>

\* RK_MPI_VO_SetLayerAttr with width_ x height_ and RK_MPI_VO_EnableLayer;
\* on failure the device is disabled
InitializeDisplay_Layer ==
    /\ vf.pc = "vo_layer"
    /\ \E ok \in BOOLEAN :
         IF ok
         THEN /\ vo' = [vo EXCEPT !.layer = TRUE, !.width = width_,
                                  !.height = height_]
              /\ vf' = [vf EXCEPT !.pc = "vo_bind"]
              /\ UNCHANGED v_outcome
         ELSE /\ vo' = [vo EXCEPT !.dev = FALSE]
              /\ vf' = VfIdle
              /\ Returns(vf.n, "bringup_failed")
    /\ UNCHANGED <<signaling_vars, now, audio_vars, bringups, v_session_fresh, mb, sync_calls,
                   v_is_initialized_, v_is_running_, is_decoder_ready_,
                   is_display_ready_, width_, height_, codec_type_,
                   v_first_frame_received_, first_frame_pts_,
                   first_frame_time_, audio_sync_callback_, vdec, vstop_pc,
                   v_notified, submitted, v_frames, v_starts, v_resets>>

\* RK_MPI_SYS_Bind of the decoder channel to the display channel, which
\* then shows the stream; on success is_display_ready_ = true; on failure
\* the layer is disabled and the device is enabled
InitializeDisplay_Bind ==
    /\ vf.pc = "vo_bind"
    /\ \E ok \in BOOLEAN :
         IF ok
         THEN /\ vo' = [vo EXCEPT !.bound = TRUE, !.chn = TRUE]
              /\ is_display_ready_' = TRUE
              /\ bringups' = [bringups EXCEPT !.display = @ + 1]
              /\ vf' = [vf EXCEPT !.pc = "decode"]
              /\ UNCHANGED v_outcome
         ELSE /\ vo' = [vo EXCEPT !.layer = FALSE, !.dev = TRUE]
              /\ vf' = VfIdle
              /\ Returns(vf.n, "bringup_failed")
              /\ UNCHANGED <<is_display_ready_, bringups>>
    /\ UNCHANGED <<signaling_vars, now, audio_vars, v_session_fresh, mb, sync_calls,
                   v_is_initialized_, v_is_running_, is_decoder_ready_,
                   width_, height_, codec_type_, v_first_frame_received_,
                   first_frame_pts_, first_frame_time_, audio_sync_callback_,
                   vdec, vstop_pc, v_notified, submitted, v_frames, v_starts,
                   v_resets>>

\* DecodeAndDisplayFrame returns false when the decoder or the display is
\* not ready
DecodeReturnsEarly == ~is_decoder_ready_ \/ ~is_display_ready_

\* the readiness check of DecodeAndDisplayFrame
Decode_Check ==
    /\ vf.pc = "decode"
    /\ IF DecodeReturnsEarly
       THEN /\ vf' = VfIdle
            /\ Returns(vf.n, "decode_failed")
       ELSE /\ vf' = [vf EXCEPT !.pc = "create_mb"]
            /\ UNCHANGED v_outcome
    /\ UNCHANGED <<signaling_vars, now, audio_vars, bringups, v_session_fresh, mb, sync_calls,
                   v_is_initialized_, v_is_running_, is_decoder_ready_,
                   is_display_ready_, width_, height_, codec_type_,
                   v_first_frame_received_, first_frame_pts_,
                   first_frame_time_, audio_sync_callback_, vdec, vo, vstop_pc,
                   v_notified, submitted, v_frames, v_starts, v_resets>>

\* free(buffer)
Free(b) == [b EXCEPT !.mem = "freed", !.frees = @ + 1]

\* FreeCallback(opaque): frees the buffer and deletes the user data
FreeCallback(b) == [Free(b) EXCEPT !.callbacks = @ + 1]

\* a reference to the block is dropped: the block runs its release callback
\* when no reference is left
DropReference(b) == IF ~b.handle /\ ~b.hw THEN FreeCallback(b) ELSE b

\* RK_MPI_MB_ReleaseMB(mb_handle): the pipeline drops its handle
ReleaseMB(b) == DropReference([b EXCEPT !.handle = FALSE])

\* malloc succeeded and RK_MPI_SYS_CreateMB failed: free(buffer_data),
\* delete userData
MbAfterWrapFailure(b) == Free([b EXCEPT !.mem = "allocated"])

\* malloc and RK_MPI_SYS_CreateMB succeeded: the block wraps the buffer and
\* the pipeline holds its handle
MbAfterWrap(b) == [b EXCEPT !.mem = "allocated", !.wrapped = TRUE, !.handle = TRUE]

\* (variant: the failure path of RK_MPI_VDEC_SendStream also frees the buffer
\* itself, as the failure path of RK_MPI_SYS_CreateMB does)
Mutant_SendFailureFreesDirectly(b) == Free(ReleaseMB(b))

\* (variant: the failure path of RK_MPI_VDEC_SendStream keeps the handle)
Mutant_SendFailureKeepsHandle(b) == b

\* RK_MPI_VDEC_SendStream failed: the hardware took no reference;
\* RK_MPI_MB_ReleaseMB
MbAfterSendFailure(b) == ReleaseMB(b)

\* RK_MPI_VDEC_SendStream succeeded: the hardware holds a reference;
\* RK_MPI_MB_ReleaseMB
MbAfterSendSuccess(b) == ReleaseMB([b EXCEPT !.hw = TRUE])

\* malloc, memcpy and RK_MPI_SYS_CreateMB
Decode_CreateMB ==
    /\ vf.pc = "create_mb"
    /\ \E r \in {"malloc_failed", "wrap_failed", "ok"} :
         /\ mb' = [mb EXCEPT ![vf.n] =
                     CASE r = "malloc_failed" -> @
                       [] r = "wrap_failed" -> MbAfterWrapFailure(@)
                       [] r = "ok" -> MbAfterWrap(@)]
         /\ IF r = "ok"
            THEN /\ vf' = [vf EXCEPT !.pc = "send"]
                 /\ UNCHANGED v_outcome
            ELSE /\ vf' = VfIdle
                 /\ Returns(vf.n, "decode_failed")
    /\ UNCHANGED <<signaling_vars, now, audio_vars, bringups, v_session_fresh, sync_calls,
                   v_is_initialized_, v_is_running_, is_decoder_ready_,
                   is_display_ready_, width_, height_, codec_type_,
                   v_first_frame_received_, first_frame_pts_,
                   first_frame_time_, audio_sync_callback_, vdec, vo, vstop_pc,
                   v_notified, submitted, v_frames, v_starts, v_resets>>

\* RK_MPI_VDEC_SendStream: the access unit is submitted to the decoder
\* channel, in whatever state the hardware is; then RK_MPI_MB_ReleaseMB and,
\* on success, current_time = GetCurrentTimeMs()
Decode_SendStream ==
    /\ vf.pc = "send"
    /\ submitted' = Append(submitted, [n |-> vf.n,
                                       pts |-> PresentationMs(vf.frame),
                                       decoder_up |-> DecoderUp,
                                       display_up |-> DisplayUp,
                                       width |-> vdec.width,
                                       height |-> vdec.height])
    /\ \E ok \in BOOLEAN :
         IF ok
         THEN /\ mb' = [mb EXCEPT ![vf.n] = MbAfterSendSuccess(@)]
              /\ vf' = [vf EXCEPT !.pc = "first_frame", !.current_time = now]
              /\ UNCHANGED v_outcome
         ELSE /\ mb' = [mb EXCEPT ![vf.n] = MbAfterSendFailure(@)]
              /\ vf' = VfIdle
              /\ Returns(vf.n, "decode_failed")
    /\ UNCHANGED <<signaling_vars, now, audio_vars, bringups, v_session_fresh, sync_calls,
                   v_is_initialized_, v_is_running_, is_decoder_ready_,
                   is_display_ready_, width_, height_, codec_type_,
                   v_first_frame_received_, first_frame_pts_,
                   first_frame_time_, audio_sync_callback_, vdec, vo, vstop_pc,
                   v_notified, v_frames, v_starts, v_resets>>

\* the hardware has consumed the access unit of buffer n and drops its
\* reference to the block
Hardware_ReleaseMB(n) ==
    /\ mb[n].hw
    /\ mb' = [mb EXCEPT ![n] = DropReference([@ EXCEPT !.hw = FALSE])]
    /\ UNCHANGED <<signaling_vars, now, audio_vars, bringups, v_outcome, v_session_fresh,
                   sync_calls, v_is_initialized_, v_is_running_,
                   is_decoder_ready_, is_display_ready_, width_, height_,
                   codec_type_, v_first_frame_received_, first_frame_pts_,
                   first_frame_time_, audio_sync_callback_, vdec, vo, vf,
                   vstop_pc, v_notified, submitted, v_frames, v_starts,
                   v_resets>>

\* audio_sync_callback_(pts, current_time) when the callback is installed
AudioSyncCallback(pts, current_time) ==
    IF audio_sync_callback_
    THEN /\ StoreVideoReference(pts, current_time)
         /\ sync_calls' = Append(sync_calls, [n |-> vf.n, pts |-> pts,
                                              time |-> current_time])
    ELSE UNCHANGED <<video_reference_pts_, video_reference_time_, sync_calls>>

\* if (!first_frame_received_): under sync_mutex_, record the first frame,
\* notify, and report it to the audio pipeline
Decode_FirstFrame ==
    /\ vf.pc = "first_frame"
    /\ IF ~v_first_frame_received_
       THEN /\ v_first_frame_received_' = TRUE
            /\ first_frame_pts_' = PresentationMs(vf.frame)
            /\ first_frame_time_' = vf.current_time
            /\ v_notified' = NotifyVideoState(v_notified, VIDEO_STATE_FIRST_FRAME)
            /\ AudioSyncCallback(PresentationMs(vf.frame), vf.current_time)
       ELSE UNCHANGED <<v_first_frame_received_, first_frame_pts_,
                        first_frame_time_, v_notified, video_reference_pts_,
                        video_reference_time_, sync_calls>>
    /\ vf' = [vf EXCEPT !.pc = "key_frame", !.first = v_session_fresh]
    /\ v_session_fresh' = FALSE
    /\ UNCHANGED <<signaling_vars, now, audio_rest_vars, bringups, v_outcome, mb,
                   v_is_initialized_, v_is_running_, is_decoder_ready_,
                   is_display_ready_, width_, height_, codec_type_,
                   audio_sync_callback_, vdec, vo, vstop_pc, submitted,
                   v_frames, v_starts, v_resets>>

\* if (is_key_frame): notify and report the frame to the audio pipeline
Decode_KeyFrame ==
    /\ vf.pc = "key_frame"
    /\ IF vf.frame.key
       THEN /\ v_notified' = NotifyVideoState(v_notified, VIDEO_STATE_KEY_FRAME)
            /\ AudioSyncCallback(PresentationMs(vf.frame), vf.current_time)
       ELSE UNCHANGED <<v_notified, video_reference_pts_,
                        video_reference_time_, sync_calls>>
    /\ vf' = VfIdle
    /\ Returns(vf.n, "ok")
    /\ UNCHANGED <<signaling_vars, now, audio_rest_vars, bringups, v_session_fresh, mb,
                   v_is_initialized_, v_is_running_, is_decoder_ready_,
                   is_display_ready_, width_, height_, codec_type_,
                   v_first_frame_received_, first_frame_pts_,
                   first_frame_time_, audio_sync_callback_, vdec, vo, vstop_pc,
                   submitted, v_frames, v_starts, v_resets>>

(***************************************************************************)
(* SpecVideo: the video pipeline, its owner thread (Initialize, Start,     *)
(* Stop), the signaling thread (Reset, SetAudioSyncCallback) and the       *)
(* decoder thread running concurrently.                                    *)
(***************************************************************************)
NextVideo ==
    \/ VideoInitialize
    \/ VideoStart
    \/ VideoStop_Begin
    \/ VideoStop_Decoder
    \/ VideoStop_DecoderDestroy
    \/ VideoStop_DecoderFlag
    \/ VideoStop_Display
    \/ VideoStop_DisplayFlag
    \/ VideoStop_Notify
    \/ VideoReset
    \/ SetAudioSyncCallback
    \/ OnEncodedImage_Check
    \/ OnEncodedImage_Ready
    \/ InitializeDecoder_Create
    \/ InitializeDecoder_StartRecv
    \/ InitializeDisplay_Device
    \/ InitializeDisplay_Layer
    \/ InitializeDisplay_Bind
    \/ Decode_Check
    \/ Decode_CreateMB
    \/ Decode_SendStream
    \/ Decode_FirstFrame
    \/ Decode_KeyFrame
    \/ \E n \in FrameIds : Hardware_ReleaseMB(n)

SpecVideo == Init /\ [][NextVideo]_vars

(***************************************************************************)
(* SpecVideoRestart: the owner thread (Initialize, Start, Stop, Start      *)
(* again) and the decoder thread running concurrently, for one more access *)
(* unit than in SpecVideo; no Reset, no sync bridge, and the decoder keeps *)
(* the references it took.                                                 *)
(***************************************************************************)
NextVideoRestart ==
    \/ VideoInitialize
    \/ VideoStart
    \/ VideoStop_Begin
    \/ VideoStop_Decoder
    \/ VideoStop_DecoderDestroy
    \/ VideoStop_DecoderFlag
    \/ VideoStop_Display
    \/ VideoStop_DisplayFlag
    \/ VideoStop_Notify
    \/ OnEncodedImage_CheckRestart
    \/ OnEncodedImage_Ready
    \/ InitializeDecoder_Create
    \/ InitializeDecoder_StartRecv
    \/ InitializeDisplay_Device
    \/ InitializeDisplay_Layer
    \/ InitializeDisplay_Bind
    \/ Decode_Check
    \/ Decode_CreateMB
    \/ Decode_SendStream
    \/ Decode_FirstFrame
    \/ Decode_KeyFrame

SpecVideoRestart == Init /\ [][NextVideoRestart]_vars

(***************************************************************************)
(* Properties of the audio queue and of the audio life cycle (Spec).       *)
(***************************************************************************)
Min(a, b) == IF a <= b THEN a ELSE b
Max(a, b) == IF a >= b THEN a ELSE b
BufferIds == [i \in 1..Len(audio_buffer_) |-> audio_buffer_[i].id]

\* C1: under every interleaving of deliveries, worker dequeues, Reset and
\* Stop, the audio queue never holds more than max_buffer_size_ chunks.
C1_QueueNeverExceedsCapacity == Len(audio_buffer_) <= max_buffer_size_

\* the queue is full again after a delivery that found it full, while the
\* worker is alive
C1_Witness ==
    /\ Len(audio_buffer_) = max_buffer_size_
    /\ notified[AUDIO_STATE_BUFFER_OVERFLOW] > 0
    /\ Alive # {}

\* nothing has drained the queue: no dequeue, no Stop, no Reset
NoDraining ==
    /\ dequeued = <<>>
    /\ ctl_pc = "idle" /\ notified[AUDIO_STATE_STOPPED] = 0
    /\ rst_pc = "idle" /\ epoch_id = 0

\* the overflow step of a delivery: a full queue loses exactly its oldest
\* chunk and one overflow notification is emitted; a queue that is not full
\* loses nothing and nothing is notified
C2_OverflowStep ==
    (od.pc = "overflow" /\ od'.pc = "pts_flag") =>
        IF Len(audio_buffer_) >= max_buffer_size_
        THEN /\ audio_buffer_' = Tail(audio_buffer_)
             /\ notified' = [notified EXCEPT ![AUDIO_STATE_BUFFER_OVERFLOW] = @ + 1]
        ELSE /\ audio_buffer_' = audio_buffer_
             /\ notified' = notified

\* the push step of a delivery: the new chunk is always appended
C2_PushStep ==
    (od.pc = "push" /\ od'.pc = "idle") =>
        /\ Len(audio_buffer_') = Len(audio_buffer_) + 1
        /\ SubSeq(audio_buffer_', 1, Len(audio_buffer_)) = audio_buffer_
        /\ audio_buffer_'[Len(audio_buffer_')].id = next_id'

\* after n deliveries with no draining the queue holds the min(n, capacity)
\* most recent chunks in arrival order, and n - capacity overflow
\* notifications were emitted when n exceeds the capacity
C2_NoDrainScenario ==
    (NoDraining /\ od.pc = "idle") =>
        /\ BufferIds = [i \in 1..Min(next_id, max_buffer_size_) |->
                           next_id - Min(next_id, max_buffer_size_) + i]
        /\ notified[AUDIO_STATE_BUFFER_OVERFLOW] = Max(0, next_id - max_buffer_size_)

\* C2: a delivery to a full queue evicts exactly the oldest chunk, emits
\* exactly one overflow notification and enqueues the new chunk; capacity+k
\* deliveries with no draining leave the capacity most recent chunks in
\* arrival order and emit k overflow notifications.
C2_EvictOldestKeepNewest ==
    /\ []C2_NoDrainScenario
    /\ [][C2_OverflowStep /\ C2_PushStep]_vars

\* more chunks than the capacity were delivered with no draining
C2_Witness ==
    /\ NoDraining /\ od.pc = "idle"
    /\ next_id > max_buffer_size_
    /\ notified[AUDIO_STATE_BUFFER_OVERFLOW] = next_id - max_buffer_size_

\* C5 (as claimed): once Reset has returned, every chunk in the queue has a
\* PTS computed in the epoch that Reset began; a chunk's epoch is the one in
\* which CalculateAudioPts read first_frame_received_ as set, or in which it
\* started a new epoch itself.
C5_QueueHoldsOnlyFreshPts ==
    rst_pc = "idle" =>
        \A i \in 1..Len(audio_buffer_) : audio_buffer_[i].epoch = epoch_id

\* at most one worker is alive, and every spawned worker was announced
C8_OneWorker ==
    /\ Cardinality(Alive) <= 1
    /\ Cardinality(Spawned) = notified[AUDIO_STATE_STARTED]

\* while the pipeline runs no step spawns a worker or emits 'started'
C8_NoSpawnWhileRunning ==
    is_running_ =>
        /\ {w \in Threads : worker'[w].pc # "unborn"} = Spawned
        /\ notified'[AUDIO_STATE_STARTED] = notified[AUDIO_STATE_STARTED]

\* C8: for every sequence of Start and Stop calls at most one worker thread
\* is alive; a Start issued while running spawns no thread and emits no
\* 'started' notification.
C8_StartIsIdempotent ==
    /\ []C8_OneWorker
    /\ [][C8_NoSpawnWhileRunning]_vars

\* the second session runs and the owner is free to call Start again
C8_Witness ==
    /\ is_running_ /\ ctl_pc = "idle"
    /\ Cardinality(Alive) = 1
    /\ notified[AUDIO_STATE_STARTED] = 2

\* C9 (as claimed): whenever the pipeline is stopped and Stop has returned,
\* no worker is alive and the queue is empty, whatever a delivery that was
\* in flight when Stop began does.
C9_StoppedMeansDrained ==
    (~is_running_ /\ ctl_pc = "idle") =>
        /\ Alive = {}
        /\ audio_buffer_ = <<>>

(***************************************************************************)
(* Properties of the presentation timestamps (SpecPts).                    *)
(***************************************************************************)
\* C3 (as claimed): two chunks delivered one after the other with no Reset
\* in between have non-decreasing PTS.
C3_PtsNonDecreasing ==
    \A i \in 1..(Len(audio_buffer_) - 1) :
        audio_buffer_[i].epoch = audio_buffer_[i + 1].epoch =>
            audio_buffer_[i].pts <= audio_buffer_[i + 1].pts

\* the step in which CalculateAudioPts returns
PtsReturns == od.pc \in {"pts_first", "pts_sync"} /\ od'.pc = "push"

\* C4 (as claimed): the first chunk after a Start or a Reset makes its
\* delivery time the audio epoch and gets the reference's PTS when a
\* reference is set, 0 otherwise.
C4_FirstChunkSeedsEpoch ==
    [][(PtsReturns /\ session_fresh) =>
          /\ first_audio_time_' = od.current_time
          /\ od'.pts = FirstPts]_vars

\* audio's naive PTS minus the PTS expected from the video reference
AudioOffset ==
    (first_audio_pts_ - first_audio_time_)
        - (video_reference_pts_ - video_reference_time_)

\* the offset observed at the chunk whose PTS is returned
ObservedOffset ==
    od'.pts - (video_reference_pts_ + (od.current_time - video_reference_time_))

\* a quarter, rounded toward zero
C6_Quarter(d) == IF d >= 0 THEN d \div 4 ELSE -((-d) \div 4)

\* a chunk after the first one, with a reference set
C6_CorrectingStep ==
    (od.pc = "pts_sync" /\ od'.pc = "push" /\ video_reference_time_ > 0) =>
        IF Abs(AudioOffset) > target_delay_ms_
        THEN /\ AudioOffset' = AudioOffset - C6_Quarter(AudioOffset)
             /\ ObservedOffset = AudioOffset'
             /\ Abs(AudioOffset') < Abs(AudioOffset)
             /\ (AudioOffset > 0) = (AudioOffset' > 0)
        ELSE /\ AudioOffset' = AudioOffset
             /\ ObservedOffset = AudioOffset

\* between two chunks of one epoch the offset moves only with the reference
C6_OffsetKept ==
    (/\ first_frame_received_ /\ first_frame_received_'
     /\ rst_pc = "idle" /\ rst_pc' = "idle"
     /\ <<video_reference_pts_, video_reference_time_>>' =
            <<video_reference_pts_, video_reference_time_>>
     /\ ~(od.pc = "pts_sync" /\ od'.pc = "push"))
        => AudioOffset' = AudioOffset

C10_SubmitOnlyWhenHardwareUp ==
    \A i \in 1..Len(submitted) :
        submitted[i].decoder_up /\ submitted[i].display_up

\* in one session the decoder and the display are each brought up at most once
C11_AtMostOnce == bringups.decoder <= 1 /\ bringups.display <= 1

\* RK_MPI_VDEC_CreateChn creates a channel only when none exists
C11_CreateOnlyWhenDestroyed ==
    (vf.pc = "vdec_create" /\ vf'.pc = "vdec_start") => vdec.state = "none"

\* a frame triggers the bring-up only when the display has not been brought
\* up in this session
C11_NoSecondBringUp ==
    (vf.pc = "ready" /\ vf'.pc = "vdec_create") => bringups.display = 0

\* C11 (as claimed): within one session decoder creation and display
\* creation each succeed at most once, no frame after a successful bring-up
\* triggers the bring-up again, and no decoder channel is created while an
\* earlier one has not been destroyed, also when the display bring-up fails
\* after the decoder bring-up succeeded and the next frame retries.
C11_BringUpOncePerSession ==
    /\ []C11_AtMostOnce
    /\ [][C11_CreateOnlyWhenDestroyed /\ C11_NoSecondBringUp]_vars

\* C12 (as claimed): the decoder channel and the display layer are
\* configured with the encoded width and height of the access unit that
\* triggers the bring-up, as it reaches the pipeline through Transform.
C12_BringUpUsesFrameResolution ==
    [][/\ (vf.pc = "vdec_create" /\ vf'.pc = "vdec_start") =>
              (vdec'.width = vf.unit.width /\ vdec'.height = vf.unit.height)
       /\ (vf.pc = "vo_layer" /\ vf'.pc = "vo_bind") =>
              (vo'.width = vf.unit.width /\ vo'.height = vf.unit.height)]_vars

\* the access units whose call ended in a failed bring-up were neither
\* submitted nor reported to the audio pipeline
C13_FailedFrameNotSubmitted ==
    \A n \in FrameIds :
        v_outcome[n] = "bringup_failed" =>
            /\ \A i \in 1..Len(submitted) : submitted[i].n # n
            /\ \A i \in 1..Len(sync_calls) : sync_calls[i].n # n

\* the step in which a bring-up fails leaves the first-frame state, the
\* reference and the running flag as they are
C13_FailureKeepsState ==
    (vf.n \in FrameIds /\ v_outcome'[vf.n] = "bringup_failed"
        /\ v_outcome[vf.n] # "bringup_failed") =>
        /\ v_first_frame_received_' = v_first_frame_received_
        /\ first_frame_pts_' = first_frame_pts_
        /\ first_frame_time_' = first_frame_time_
        /\ video_reference_pts_' = video_reference_pts_
        /\ video_reference_time_' = video_reference_time_
        /\ v_is_running_' = v_is_running_

\* the access unit delivered after a failed bring-up starts the bring-up again
C13_NextFrameRetries ==
    (vf.pc = "ready" /\ vf'.pc # "ready" /\ vf.n > 1
        /\ v_outcome[vf.n - 1] = "bringup_failed") =>
        vf'.pc = "vdec_create"

\* C13: when the bring-up fails for an access unit, the unit is not
\* submitted to the decoder, the first-frame flag and the reference are left
\* unchanged, the pipeline stays running, and the next delivered access unit
\* attempts the bring-up again.
C13_BringUpFailureDropsFrame ==
    /\ []C13_FailedFrameNotSubmitted
    /\ [][C13_FailureKeepsState /\ C13_NextFrameRetries]_vars

\* C14: the buffer allocated for an access unit is freed at most once and
\* never while the decoder holds a reference to its block, whether the
\* wrapping failed, the submission failed or the submission succeeded.
C14_BufferFreedOnceAndNotInUse ==
    \A n \in FrameIds :
        /\ mb[n].frees <= 1
        /\ mb[n].hw => mb[n].mem = "allocated"
        /\ mb[n].mem = "freed" <=> mb[n].frees = 1

\* the buffer of the first access unit went through a failed submission and
\* was freed by the callback, the buffer of the second one is held by the
\* decoder after the pipeline released its handle
C14_Witness ==
    /\ v_outcome[1] = "decode_failed" /\ mb[1].wrapped /\ mb[1].frees = 1
    /\ mb[2].wrapped /\ mb[2].hw /\ ~mb[2].handle /\ mb[2].frees = 0

\* the video pipeline with its scheduling: the thread that delivers access
\* units goes on once it has wrapped a buffer, and the decoder eventually
\* drops every reference it holds
SpecVideoLive ==
    /\ Init
    /\ [][NextVideo]_vars
    /\ WF_vars(Decode_SendStream)
    /\ \A n \in FrameIds : WF_vars(Hardware_ReleaseMB(n))

SyncCallsOf(calls, n) == {i \in 1..Len(calls) : calls[i].n = n}

\* the call for an access unit that was submitted returns
FrameDone == vf.pc = "key_frame" /\ vf'.pc = "idle"

\* the first access unit of a session and every key frame is reported to the
\* audio pipeline with the current wall-clock time
C16_FirstOrKeyInvokes ==
    (FrameDone /\ vf.cb /\ (vf.first \/ vf.unit.key)) =>
        \E i \in SyncCallsOf(sync_calls', vf.n) :
            sync_calls'[i].time = vf.current_time

\* the access unit is reported with its own presentation timestamp
C16_InvokedWithFramePts ==
    FrameDone =>
        \A i \in SyncCallsOf(sync_calls', vf.n) :
            sync_calls'[i].pts = vf.unit.pts

\* a delta frame that is not the first of its session is not reported
C16_DeltaNeverInvokes ==
    (FrameDone /\ ~vf.first /\ ~vf.unit.key) =>
        SyncCallsOf(sync_calls', vf.n) = {}

\* the reference changes only in an invocation of the callback
C16_OnlyCallbackWrites ==
    (video_reference_pts_' # video_reference_pts_
        \/ video_reference_time_' # video_reference_time_) =>
        /\ Len(sync_calls') = Len(sync_calls) + 1
        /\ video_reference_pts_' = sync_calls'[Len(sync_calls')].pts
        /\ video_reference_time_' = sync_calls'[Len(sync_calls')].time

\* C16: for every access unit delivered to a running video pipeline, the
\* audio callback is invoked with the unit's presentation timestamp and the
\* current wall-clock time if the unit is the first of the session (since
\* Start or the last Reset) or a key frame; a delta frame that is not the
\* first one never invokes it; nothing else writes the reference.
C16_SyncOnFirstAndKeyFrames ==
    [][/\ C16_FirstOrKeyInvokes
       /\ C16_InvokedWithFramePts
       /\ C16_DeltaNeverInvokes
       /\ C16_OnlyCallbackWrites]_vars

\* the pair stored in the audio pipeline
StoredReference == <<video_reference_pts_, video_reference_time_>>

\* a PTS computation executes one of its sections under sync_mutex_, the
\* only places where it reads the reference
ReadsReference ==
    \/ od.pc = "pts_first" /\ od'.pc # "pts_first"
    \/ od.pc = "pts_sync" /\ od'.pc # "pts_sync"

\* the pair a PTS computation reads is the pair of one call: the latest call
\* or the call before it
C17_ReadsPairOfOneCall ==
    ReadsReference =>
        StoredReference \in {<<svr.video_pts, svr.system_time>>, svr.old}

\* between two calls the stored pair is the argument pair of the latest call
C17_StoredPairIsLatestCall ==
    svr.pc = "idle" => StoredReference = <<svr.video_pts, svr.system_time>>

\* C17: however SetVideoReference calls of the video thread interleave with
\* PTS computations of the delivery thread, a computation reads a pair
\* (video_pts, wall_clock) written by a single call, never a mix of two
\* calls, and after any sequence of calls the stored pair is the argument
\* pair of the latest call.
C17_ReferencePairNeverMixed ==
    /\ []C17_StoredPairIsLatestCall
    /\ [][C17_ReadsPairOfOneCall]_vars

\* a PTS computation is about to read the reference while a call has stored
\* the new presentation timestamp and not yet the new wall-clock time
C17_Witness ==
    /\ od.pc = "pts_sync"
    /\ svr.pc = "time"
    /\ svr.old[2] > 0
    /\ svr.old[1] # svr.video_pts
    /\ svr.old[2] # svr.system_time
    /\ StoredReference = <<svr.video_pts, svr.old[2]>>

\* Stop has run to its end and the pipeline has not been started since
StopReturned ==
    /\ vstop_pc = "idle"
    /\ ~v_is_running_
    /\ v_notified[VIDEO_STATE_STOPPED] > 0

\* no decoder channel, display device, layer, channel or binding exists
NoHardwareHeld ==
    /\ vdec.state = "none"
    /\ ~vo.dev /\ ~vo.layer /\ ~vo.bound /\ ~vo.chn

\* C18: after Stop has returned, none of the hardware resources acquired by
\* the bring-up is held (decoder channel and stream, display device, display
\* layer, binding of the decoder to the display), whatever state Stop was
\* called in.
C18_StopReleasesAllHardware == StopReturned => NoHardwareHeld

\* no call of Stop and no delivery of an access unit is in progress
VideoQuiescent == vstop_pc = "idle" /\ vf.pc = "idle"

\* a pipeline that runs has been initialized: Start fails on an
\* uninitialized pipeline and leaves it not running
C19_RunningImpliesInitialized == v_is_running_ => v_is_initialized_

\* ready hardware belongs to an initialized, running pipeline
C19_ReadyImpliesRunning ==
    (is_decoder_ready_ \/ is_display_ready_) =>
        (v_is_initialized_ /\ v_is_running_)

\* C19: the pipeline goes from uninitialized to initialized, to running with
\* the hardware pending, to running with the hardware ready, to stopped:
\* Start on an uninitialized pipeline leaves it not running, and whenever the
\* decoder or the display is ready the pipeline is initialized and running
\* (stated for the states between the calls).
C19_StateMachine ==
    /\ C19_RunningImpliesInitialized
    /\ VideoQuiescent => C19_ReadyImpliesRunning

\* Start takes effect on a pipeline that Stop has stopped
Restarts == ~v_is_running_ /\ v_is_running_' /\ v_starts' >= 2

\* the restarted pipeline runs with both ready flags false
C20_RestartIsHardwarePending ==
    Restarts => (~is_decoder_ready_' /\ ~is_display_ready_')

\* in a restarted pipeline an access unit is decoded only after a bring-up
\* made since the restart
C20_RestartBringsUpAgain ==
    (v_starts >= 2 /\ vf.pc = "ready" /\ vf'.pc = "decode") =>
        (bringups.decoder >= 1 /\ bringups.display >= 1)

\* the bring-up made after a restart configures the decoder with the
\* resolution of the access unit that triggers it
C20_RestartUsesFrameResolution ==
    (v_starts >= 2 /\ vf.pc = "vdec_create" /\ vf'.pc = "vdec_start") =>
        (vdec'.width = vf.unit.width /\ vdec'.height = vf.unit.height)

\* C20: a Start issued after Stop, without a new Initialize, succeeds and
\* leaves the pipeline running with the hardware pending: both ready flags
\* are false and the next delivered access unit triggers a fresh bring-up at
\* the resolution of that unit.
C20_StartAfterStopIsHardwarePending ==
    [][/\ C20_RestartIsHardwarePending
       /\ C20_RestartBringsUpAgain
       /\ C20_RestartUsesFrameResolution]_vars

\* the step in which Initialize takes effect changes no hardware and no
\* ready flag away from false
C21_RecordsConfigurationOnly ==
    (~v_is_initialized_ /\ v_is_initialized_') =>
        /\ vdec' = vdec /\ vo' = vo /\ mb' = mb /\ submitted' = submitted
        /\ ~is_decoder_ready_' /\ ~is_display_ready_'
        /\ v_is_running_' = v_is_running_
        /\ \E c \in VideoConfigs :
              /\ width_' = c.width /\ height_' = c.height
              /\ codec_type_' = c.codec_type

\* Initialize succeeds except on a pipeline that is initialized and running
C21_SucceedsUnlessRunning ==
    InitializeReturns(v_is_initialized_) <=>
        ~(v_is_initialized_ /\ v_is_running_)

\* C21: Initialize performs no hardware call in any state and only records
\* the configuration; it reports success in every state, except on a
\* pipeline that is already initialized and running, where it does not
\* succeed.
C21_InitializeContract ==
    /\ [][C21_RecordsConfigurationOnly]_vars
    /\ []C21_SucceedsUnlessRunning

(***************************************************************************)
(* Properties of the audio worker (Spec).                                  *)
(***************************************************************************)
\* a SendAudioFrameToDevice call returns in this step
SendReturns == Len(sent') = Len(sent) + 1

\* the failures among the submissions made so far
FailedSends == {i \in 1..Len(sent) : ~sent[i].ok}

\* a failed submission emits one 'device error' notification, a successful
\* one emits none; either way the chunk is not put back, the running flag is
\* kept and the worker is back at the head of its loop
C22_FailureNotifiesOnceAndGoesOn ==
    SendReturns =>
        /\ notified'[AUDIO_STATE_DEVICE_ERROR] =
              notified[AUDIO_STATE_DEVICE_ERROR]
                 + (IF sent'[Len(sent')].ok THEN 0 ELSE 1)
        /\ audio_buffer_' = audio_buffer_
        /\ is_running_' = is_running_
        /\ \A w \in Threads :
              worker[w].pc = "send" => worker'[w].pc = "loop"

\* the running flag is cleared by Stop only, and a worker leaves its loop
\* only after it has read the cleared flag
C22_OnlyStopEndsProcessing ==
    /\ (is_running_ /\ ~is_running_') => (ctl_pc = "idle" /\ ctl_pc' = "join")
    /\ \A w \in Threads :
          (worker[w].pc # "exited" /\ worker'[w].pc = "exited") =>
              (worker[w].pc = "loop" /\ ~is_running_)

\* as many 'device error' notifications as failed submissions
C22_OneNotificationPerFailure ==
    notified[AUDIO_STATE_DEVICE_ERROR] = Cardinality(FailedSends)

\* C22: a failed hardware submission emits exactly one device-error
\* notification, drops that chunk and leaves the worker running to dequeue
\* the following chunks; the worker stops processing only as a result of an
\* explicit Stop: no error path clears the running flag or leaves the loop.
C22_SubmissionFailureDoesNotStopWorker ==
    /\ []C22_OneNotificationPerFailure
    /\ [][C22_FailureNotifiesOnceAndGoesOn /\ C22_OnlyStopEndsProcessing]_vars

\* the submission of the first chunk failed and the same worker has
\* submitted the second chunk, with no Stop in between
C22_Witness ==
    /\ Len(sent) = 2
    /\ sent[1].id = 1 /\ ~sent[1].ok
    /\ sent[2].id = 2 /\ sent[2].ok
    /\ notified[AUDIO_STATE_DEVICE_ERROR] = 1
    /\ notified[AUDIO_STATE_STOPPED] = 0 /\ ctl_pc = "idle" /\ is_running_

\* C23: the chunks the worker submits to the device are a subsequence of the
\* arrival sequence, in the same order: no two chunks are submitted in the
\* reverse of their arrival order and no chunk is submitted twice, whatever
\* the interleaving of delivery, eviction, Reset and dequeue.
C23_SubmittedInArrivalOrder ==
    /\ \A i \in 1..Len(sent) : sent[i].id \in 1..next_id
    /\ \A i, j \in 1..Len(sent) : i < j => sent[i].id < sent[j].id

\* the first chunk was evicted from the full queue and the worker has
\* submitted the second and the third
C23_Witness ==
    /\ notified[AUDIO_STATE_BUFFER_OVERFLOW] = 1
    /\ Len(sent) = 2 /\ sent[1].id = 2 /\ sent[2].id = 3

\* SendAudioFrameToDevice on a device that does not work: the call returns
\* false before it reaches the hardware
Worker_SendNoDevice(w) == ~is_device_working_ /\ Worker_Send(w)

\* the audio pipeline with its scheduling: the worker and the owner thread
\* go on whenever they can, the sleep of the worker ends, and a call of
\* SendAudioFrameToDevice that does not reach the hardware returns.
\* RK_MPI_AO_SendFrame is called with the timeout -1 (block until the device
\* takes the frame), so nothing makes a call that reached the device return.
SpecAudioLive ==
    /\ Init
    /\ [][Next]_vars
    /\ WF_vars(Stop_Join) /\ WF_vars(Stop_Clear) /\ WF_vars(Stop_Disable)
    /\ \A w \in Threads :
          /\ WF_vars(Worker_Loop(w))
          /\ WF_vars(Worker_Dequeue(w))
          /\ WF_vars(Worker_Wait(w))
          /\ WF_vars(Worker_SendNoDevice(w))

\* a worker that evaluates its loop condition with the running flag cleared
\* leaves the loop
C25_WorkerObservesFlag ==
    \A w \in Threads :
        (worker[w].pc = "loop" /\ worker'[w].pc # "loop" /\ ~is_running_) =>
            worker'[w].pc = "exited"

\* C25: once Stop is called on a running audio pipeline the worker observes
\* the cleared running flag at its next loop iteration and exits, so Stop
\* eventually returns; the worker never waits indefinitely, neither on an
\* empty queue nor while it submits a chunk to the device.
C25_StopEventuallyReturns ==
    /\ [][C25_WorkerObservesFlag]_vars
    /\ (ctl_pc = "join") ~> (ctl_pc = "idle")

\* every submission made so far has failed
AllSendsFail == \A i \in 1..Len(sent) : ~sent[i].ok

\* the pipeline runs and neither Stop nor Reset is at work
SteadyRun ==
    /\ is_running_ /\ is_running_'
    /\ ctl_pc = "idle" /\ ctl_pc' = "idle"
    /\ rst_pc = "idle" /\ rst_pc' = "idle"

\* while every submission fails, the buffered delay below the cap does not
\* go down
C26_DelayKeepsGrowing ==
    (SteadyRun /\ AllSendsFail /\ ~is_device_working_
        /\ Len(audio_buffer_) < max_buffer_size_) =>
        GetCurrentDelayMs(audio_buffer_') >= GetCurrentDelayMs(audio_buffer_)

\* C26: when every hardware submission fails while chunks keep arriving on
\* a running audio pipeline, a device-error notification is emitted for each
\* failed chunk, and the queue depth, hence GetCurrentDelayMs, keeps growing
\* until it reaches the capacity of the queue.
C26_SustainedFailureFillsQueue ==
    /\ [](AllSendsFail =>
             notified[AUDIO_STATE_DEVICE_ERROR] = Len(sent))
    /\ [][C26_DelayKeepsGrowing]_vars

(***************************************************************************)
(* C27                                                                     *)
(***************************************************************************)

\* the state codes that report an error: the negative ones
AudioErrorCodes == {c \in NotifyCodes \cup {AUDIO_STATE_INITIALIZED} : c < 0}
VideoErrorCodes == {c \in VideoNotifyCodes : c < 0}

\* the number of error notifications the video observer has received
VideoErrorsNotified ==
    v_notified[VIDEO_STATE_DECODER_ERROR] + v_notified[VIDEO_STATE_DISPLAY_ERROR]

\* the step in which the bring-up of the decoder or of the display fails
BringUpFails ==
    /\ vf.pc # "idle"
    /\ v_outcome[vf.n] = "none"
    /\ v_outcome'[vf.n] = "bringup_failed"

\* a failed bring-up fails the call in the same step: the frame is given
\* back to the caller with the failure and is not submitted
C27_FailsSynchronously ==
    [][BringUpFails => (vf'.pc = "idle" /\ submitted' = submitted)]_vars

\* C27 (audio half): an Initialize whose device configuration fails passes
\* an error code to the state observer
C27_AudioFailureNotifies ==
    \E c \in InitializeNotifies(FALSE) : c \in AudioErrorCodes

\* C27 (video half): the step in which a bring-up fails gives the observer
\* one more error notification
C27_VideoFailureNotifies ==
    [][BringUpFails => VideoErrorsNotified' > VideoErrorsNotified]_vars

\* C27: every failure to configure the hardware fails the call synchronously
\* and emits an error state-notification (audio device configuration at
\* Initialize, decoder and display bring-up at the first frame)
C27_ConfigurationFailureNotifies ==
    /\ C27_FailsSynchronously
    /\ [](C27_AudioFailureNotifies)
    /\ C27_VideoFailureNotifies

\* a bring-up has failed and the observer has no error notification
C27_SilentFailure ==
    /\ \E i \in DOMAIN v_outcome : v_outcome[i] = "bringup_failed"
    /\ VideoErrorsNotified = 0
    /\ InitializeNotifies(FALSE) = {}

(***************************************************************************)
(* C28                                                                     *)
(***************************************************************************)

\* a step of Reset: it enters or leaves one of its two sections, or makes
\* one of the stores of the first
ResetStep == rst_pc' # rst_pc \/ rst_pending' # rst_pending

\* the step with which Reset returns
ResetReturns == rst_pc = "clear" /\ rst_pc' = "idle"

\* no step of Reset touches the running flag, the worker threads, the
\* device-health flag, the stored reference or the owner's Start/Stop
C28_LeavesPipelineAlone ==
    [][ResetStep =>
        UNCHANGED <<is_running_, worker, is_device_working_,
                    video_reference_pts_, video_reference_time_, ctl_pc,
                    sent, dequeued, od>>]_vars

\* what a step of Reset writes: a field of the epoch gets its cleared
\* value, the queue becomes empty, the sync-reset count goes up by one
C28_WritesOnlyItsOwn ==
    [][ResetStep =>
        /\ first_frame_received_' \in {first_frame_received_, FALSE}
        /\ first_audio_pts_' \in {first_audio_pts_, 0}
        /\ first_audio_time_' \in {first_audio_time_, 0}
        /\ audio_buffer_' \in {audio_buffer_, <<>>}
        /\ \A c \in NotifyCodes \ {AUDIO_STATE_SYNC_RESET} :
               notified'[c] = notified[c]]_vars

\* the first section stores the cleared value in each of the three fields
C28_ClearsTheEpoch ==
    [][ResetStep =>
        /\ \A f \in rst_pending \ rst_pending' :
              /\ f = "first_frame_received_" => ~first_frame_received_'
              /\ f = "first_audio_pts_" => first_audio_pts_' = 0
              /\ f = "first_audio_time_" => first_audio_time_' = 0
        /\ (rst_pc = "sync" /\ rst_pc' = "clear") => rst_pending' = {}]_vars

\* Reset returns with the queue empty and one more sync-reset notification;
\* no other step of it notifies
C28_EmptiesAndNotifiesOnce ==
    [][ResetStep =>
        IF ResetReturns
        THEN /\ audio_buffer_' = <<>>
             /\ notified'[AUDIO_STATE_SYNC_RESET] =
                    notified[AUDIO_STATE_SYNC_RESET] + 1
        ELSE /\ audio_buffer_' = audio_buffer_
             /\ notified' = notified]_vars

\* C28: audio Reset leaves the running flag, the worker thread, the
\* device-health flag and the stored reference unchanged; it only clears the
\* first-chunk flag and the audio epoch, empties the queue and emits one
\* sync-reset notification
C28_ResetFrameEffect ==
    /\ C28_LeavesPipelineAlone
    /\ C28_WritesOnlyItsOwn
    /\ C28_ClearsTheEpoch
    /\ C28_EmptiesAndNotifiesOnce

\* Reset has returned on a running pipeline with a healthy device, a live
\* worker and a stored reference; it removed a chunk from the queue (one was
\* delivered, none was dequeued or dropped by an overflow)
C28_Witness ==
    /\ rst_pc = "idle"
    /\ epoch_id = 1
    /\ notified[AUDIO_STATE_SYNC_RESET] = 1
    /\ is_running_
    /\ is_device_working_
    /\ Alive # {}
    /\ video_reference_pts_ # 0
    /\ od.pc = "idle"
    /\ next_id >= 1
    /\ dequeued = <<>>
    /\ notified[AUDIO_STATE_BUFFER_OVERFLOW] = 0
    /\ audio_buffer_ = <<>>

(***************************************************************************)
(* C29                                                                     *)
(***************************************************************************)

\* the step of the video Reset
VideoResetStep == v_resets' # v_resets

\* the first-frame check of DecodeAndDisplayFrame, and the check finding
\* the bookkeeping cleared: the frame is treated as a first frame
FirstFrameCheck == vf.pc = "first_frame" /\ vf'.pc = "key_frame"
TreatedAsFirst == FirstFrameCheck /\ ~v_first_frame_received_

\* Reset leaves the running flag, the ready flags, the hardware, the
\* buffers and the call in progress as they are
C29_LeavesHardwareAlone ==
    [][VideoResetStep =>
        UNCHANGED <<v_is_initialized_, v_is_running_, is_decoder_ready_,
                    is_display_ready_, vdec, vo, mb, vf, vstop_pc, submitted,
                    width_, height_, codec_type_, audio_sync_callback_,
                    sync_calls, audio_vars>>]_vars

\* Reset clears the first-frame bookkeeping and notifies 'sync reset' once
C29_ClearsBookkeeping ==
    [][VideoResetStep =>
        /\ ~v_first_frame_received_'
        /\ first_frame_pts_' = 0
        /\ first_frame_time_' = 0
        /\ v_notified' = [v_notified EXCEPT ![VIDEO_STATE_SYNC_RESET] = @ + 1]]_vars

\* the cleared bookkeeping stays cleared until a submitted frame reaches
\* the first-frame check; that frame, key or delta, is notified as the first
\* frame and, when the callback is installed, reported to the audio side
C29_NextFrameIsFirst ==
    [][/\ (~v_first_frame_received_ /\ v_first_frame_received_') => TreatedAsFirst
       /\ TreatedAsFirst =>
            /\ v_first_frame_received_'
            /\ v_notified'[VIDEO_STATE_FIRST_FRAME] =
                   v_notified[VIDEO_STATE_FIRST_FRAME] + 1
            /\ audio_sync_callback_ => Len(sync_calls') = Len(sync_calls) + 1
       /\ ~TreatedAsFirst =>
            v_notified'[VIDEO_STATE_FIRST_FRAME] =
                v_notified[VIDEO_STATE_FIRST_FRAME]]_vars

\* no frame invokes the callback more than once
C29_OneCallbackPerFrame ==
    [][FrameDone => Cardinality(SyncCallsOf(sync_calls', vf.n)) <= 1]_vars

\* the first-frame notification is emitted at most once between two Resets
C29_FirstFrameOncePerReset ==
    [](v_notified[VIDEO_STATE_FIRST_FRAME] <= v_resets + 1)

\* C29: video Reset leaves the running flag, the ready flags and the
\* hardware unchanged and only clears the first-frame bookkeeping, so that
\* the next submitted frame, key or delta, is treated as the first frame of a
\* session (one first-frame notification and one callback), and the
\* first-frame notification is emitted at most once between two Resets
C29_ResetFrameEffect ==
    /\ C29_LeavesHardwareAlone
    /\ C29_ClearsBookkeeping
    /\ C29_NextFrameIsFirst
    /\ C29_OneCallbackPerFrame
    /\ C29_FirstFrameOncePerReset

(***************************************************************************)
(* C30                                                                     *)
(***************************************************************************)

\* a step of the thread that executes Stop
VideoStopStep == vstop_pc' # vstop_pc

\* the hardware calls of Stop, each seen as the step that issues it
IssuesStopRecv == vstop_pc = "decoder" /\ vstop_pc' = "decoder_destroy"
IssuesDestroy == vstop_pc = "decoder_destroy" /\ vstop_pc' = "decoder_flag"
IssuesDisable == vstop_pc = "display" /\ vstop_pc' = "display_flag"

\* the positions Stop passes through, in the order of its statements
StopOrder ==
    <<"idle", "decoder", "decoder_destroy", "decoder_flag", "display",
      "display_flag", "notify">>
StopPosition(pc) == CHOOSE i \in 1..Len(StopOrder) : StopOrder[i] = pc

\* Stop moves forward through its statements and returns from the last one
C30_TeardownInOrder ==
    [][VideoStopStep =>
        \/ StopPosition(vstop_pc') > StopPosition(vstop_pc)
        \/ vstop_pc = "notify" /\ vstop_pc' = "idle"]_vars

\* the decoder is torn down (stream stop, then destroy) exactly when its
\* ready flag is set, and the display channel is disabled exactly when its
\* ready flag is set
C30_OnlyReadyResources ==
    [][VideoStopStep =>
        /\ vstop_pc = "decoder" =>
              IF is_decoder_ready_ THEN IssuesStopRecv
              ELSE vstop_pc' = "display" /\ vdec' = vdec
        /\ IssuesStopRecv => vdec'.state = ChannelAfterStopRecv(vdec.state)
        /\ vstop_pc = "decoder_destroy" => (IssuesDestroy /\ vdec'.state = "none")
        /\ vstop_pc = "display" =>
              IF is_display_ready_ THEN IssuesDisable /\ ~vo'.chn
              ELSE vstop_pc' = "notify" /\ vo' = vo
        /\ ~(IssuesStopRecv \/ IssuesDestroy) => vdec' = vdec
        /\ ~IssuesDisable => vo' = vo]_vars

\* Stop goes past its running check only on a running pipeline, and the
\* 'stopped' notification is made by the last statement of such a Stop only
C30_NothingWhenNotRunning ==
    [][/\ (vstop_pc = "idle" /\ vstop_pc' # "idle") =>
              (v_is_running_ /\ ~v_is_running_' /\ vstop_pc' = "decoder"
               /\ vdec' = vdec /\ vo' = vo /\ v_notified' = v_notified)
       /\ v_notified'[VIDEO_STATE_STOPPED] # v_notified[VIDEO_STATE_STOPPED] =>
              (vstop_pc = "notify" /\ vstop_pc' = "idle")]_vars

\* C30: Stop on a running pipeline issues decoder stream stop, then decoder
\* destroy, then display channel disable, in that order, each only for a
\* resource whose ready flag is set; Stop on a pipeline that is not running
\* issues no hardware call and no notification
C30_StopTearsDownInOrder ==
    /\ C30_TeardownInOrder
    /\ C30_OnlyReadyResources
    /\ C30_NothingWhenNotRunning

\* Stop has made its three hardware calls on a pipeline whose decoder and
\* display were brought up and which had submitted a frame, and is about to
\* notify
C30_Witness ==
    /\ vstop_pc = "notify"
    /\ submitted # <<>>
    /\ bringups.decoder >= 1
    /\ bringups.display >= 1
    /\ vdec.state = "none"
    /\ ~vo.chn
    /\ ~is_decoder_ready_
    /\ ~is_display_ready_

(***************************************************************************)
(* SpecLocks: the mutexes.  The first-frame block and the key-frame block  *)
(* of DecodeAndDisplayFrame are executed statement by statement: each      *)
(* takes the handler's sync_mutex_ with a lock_guard that lives to the end *)
(* of the block and invokes audio_sync_callback_ inside it; the callback   *)
(* runs AudioReceiver::SetVideoReference on the calling thread, which      *)
(* takes the receiver's sync_mutex_.  The signaling thread calls Reset on  *)
(* both pipelines at any moment.                                           *)
(***************************************************************************)
\* the positions of the delivering thread at which the lock_guard of the
\* first-frame block or of the key-frame block is alive
VideoSyncMutexHeldAt ==
    {"first_frame_call", "first_frame_store", "key_frame_call", "key_frame_store"}

\* the handler's sync_mutex_ is free
VideoSyncMutexFree == vf.pc \notin VideoSyncMutexHeldAt

\* if (!first_frame_received_): lock sync_mutex_, record the first frame and
\* notify
Locks_FirstFrame ==
    /\ vf.pc = "first_frame"
    /\ IF ~v_first_frame_received_
       THEN /\ v_first_frame_received_' = TRUE
            /\ first_frame_pts_' = PresentationMs(vf.frame)
            /\ first_frame_time_' = vf.current_time
            /\ v_notified' = NotifyVideoState(v_notified, VIDEO_STATE_FIRST_FRAME)
            /\ vf' = [vf EXCEPT !.pc = "first_frame_call", !.first = v_session_fresh]
       ELSE /\ vf' = [vf EXCEPT !.pc = "key_frame", !.first = v_session_fresh]
            /\ UNCHANGED <<v_first_frame_received_, first_frame_pts_,
                           first_frame_time_, v_notified>>
    /\ v_session_fresh' = FALSE
    /\ UNCHANGED <<signaling_vars, now, audio_vars, bringups, v_outcome, mb, sync_calls,
                   v_is_initialized_, v_is_running_, is_decoder_ready_,
                   is_display_ready_, width_, height_, codec_type_,
                   audio_sync_callback_, vdec, vo, vstop_pc, submitted,
                   v_frames, v_starts, v_resets>>

\* if (is_key_frame): notify and lock sync_mutex_; otherwise the call returns
Locks_KeyFrame ==
    /\ vf.pc = "key_frame"
    /\ IF vf.frame.key
       THEN /\ v_notified' = NotifyVideoState(v_notified, VIDEO_STATE_KEY_FRAME)
            /\ vf' = [vf EXCEPT !.pc = "key_frame_call"]
            /\ UNCHANGED v_outcome
       ELSE /\ vf' = VfIdle
            /\ Returns(vf.n, "ok")
            /\ UNCHANGED v_notified
    /\ UNCHANGED <<signaling_vars, now, audio_vars, bringups, v_session_fresh, mb, sync_calls,
                   v_is_initialized_, v_is_running_, is_decoder_ready_,
                   is_display_ready_, width_, height_, codec_type_,
                   v_first_frame_received_, first_frame_pts_,
                   first_frame_time_, audio_sync_callback_, vdec, vo, vstop_pc,
                   submitted, v_frames, v_starts, v_resets>>

\* the position after the callback was entered
StorePosition(pc) ==
    IF pc = "first_frame_call" THEN "first_frame_store" ELSE "key_frame_store"

\* if (audio_sync_callback_) audio_sync_callback_(pts, current_time): the
\* lambda calls SetVideoReference, which locks the receiver's sync_mutex_
Locks_CallbackEnter ==
    /\ vf.pc \in {"first_frame_call", "key_frame_call"}
    /\ audio_sync_callback_
    /\ svr.pc = "idle"
    /\ rst_pc # "sync"
    /\ svr' = [pc |-> "pts", video_pts |-> PresentationMs(vf.frame),
               system_time |-> vf.current_time,
               old |-> <<svr.video_pts, svr.system_time>>]
    /\ sync_calls' = Append(sync_calls, [n |-> vf.n,
                                         pts |-> PresentationMs(vf.frame),
                                         time |-> vf.current_time])
    /\ vf' = [vf EXCEPT !.pc = StorePosition(vf.pc)]
    /\ UNCHANGED <<signaling_vars, now, audio_rest_vars_but_svr, video_reference_pts_,
                   video_reference_time_, bringups, v_outcome,
                   v_session_fresh, mb, v_is_initialized_, v_is_running_,
                   is_decoder_ready_, is_display_ready_, width_, height_,
                   codec_type_, v_first_frame_received_, first_frame_pts_,
                   first_frame_time_, audio_sync_callback_, vdec, vo, vstop_pc,
                   v_notified, submitted, v_frames, v_starts, v_resets>>

\* the end of a block: the callback has returned, or none is installed; the
\* lock_guard releases the handler's sync_mutex_.  After the first-frame
\* block comes the key-frame check, after the key-frame block the return.
Locks_BlockEnd ==
    /\ \/ vf.pc \in {"first_frame_call", "key_frame_call"} /\ ~audio_sync_callback_
       \/ vf.pc \in {"first_frame_store", "key_frame_store"} /\ svr.pc = "idle"
    /\ IF vf.pc \in {"first_frame_call", "first_frame_store"}
       THEN /\ vf' = [vf EXCEPT !.pc = "key_frame"]
            /\ UNCHANGED v_outcome
       ELSE /\ vf' = VfIdle
            /\ Returns(vf.n, "ok")
    /\ UNCHANGED <<signaling_vars, now, audio_vars, bringups, v_session_fresh, mb, sync_calls,
                   v_is_initialized_, v_is_running_, is_decoder_ready_,
                   is_display_ready_, width_, height_, codec_type_,
                   v_first_frame_received_, first_frame_pts_,
                   first_frame_time_, audio_sync_callback_, vdec, vo, vstop_pc,
                   v_notified, submitted, v_frames, v_starts, v_resets>>

\* the video Reset waits for the handler's sync_mutex_
Locks_VideoReset == VideoSyncMutexFree /\ VideoReset

NextLocks ==
    \/ VideoInitialize
    \/ VideoStart
    \/ SetAudioSyncCallback
    \/ Locks_VideoReset
    \/ Reset_Begin
    \/ Reset_Store
    \/ Reset_Clear
    \/ OnEncodedImage_Check
    \/ OnEncodedImage_Ready
    \/ InitializeDecoder_Create
    \/ InitializeDecoder_StartRecv
    \/ InitializeDisplay_Device
    \/ InitializeDisplay_Layer
    \/ InitializeDisplay_Bind
    \/ Decode_Check
    \/ Decode_CreateMB
    \/ Decode_SendStream
    \/ Locks_FirstFrame
    \/ Locks_KeyFrame
    \/ Locks_CallbackEnter
    \/ SetVideoReference_StorePts
    \/ SetVideoReference_StoreTime
    \/ Locks_BlockEnd

SpecLocks == Init /\ [][NextLocks]_vars

(***************************************************************************)
(* C24                                                                     *)
(***************************************************************************)
\* the threads that keep a mutex from one step to the next: the thread that
\* delivers the video frames and the signaling thread in the audio Reset.
\* (Every other critical section of the two pipelines is one step.)
LockingThreads == {"video_delivery", "signaling"}

\* the mutexes a thread holds
MutexesHeld(t) ==
    IF t = "video_delivery"
    THEN (IF vf.pc \in VideoSyncMutexHeldAt THEN {"video_sync_mutex_"} ELSE {})
         \cup (IF svr.pc # "idle" THEN {"audio_sync_mutex_"} ELSE {})
    ELSE (IF rst_pc = "sync" THEN {"audio_sync_mutex_"} ELSE {})

\* C24: no thread ever holds more than one of the pipelines' mutexes at the
\* same time, in particular not while the video pipeline invokes the
\* callback that ends in AudioReceiver::SetVideoReference
C24_NoNestedLocking ==
    \A t \in LockingThreads : Cardinality(MutexesHeld(t)) <= 1

\* no mutex is held by two threads
C24_MutualExclusion ==
    \A t, u \in LockingThreads : t # u => MutexesHeld(t) \cap MutexesHeld(u) = {}

(***************************************************************************)
(* SpecSections: the critical sections.  The sections that do more than    *)
(* one thing under their mutex are executed statement by statement: the    *)
(* overflow check of OnData and the underflow check of the worker (both    *)
(* call NotifyAudioState inside the scope of the lock_guard on             *)
(* buffer_mutex_), and the first-frame and key-frame blocks of             *)
(* DecodeAndDisplayFrame.  Every other section is one step, taken when its *)
(* mutex is free.                                                          *)
(***************************************************************************)
\* buffer_mutex_ is free
BufferMutexFree ==
    /\ od.pc # "overflow_notify"
    /\ \A w \in Threads : worker[w].pc # "underflow_notify"

\* the audio variables that the steps of the delivery thread's overflow
\* check and of the worker's wait leave alone
section_rest_vars ==
    <<signaling_vars, video_vars, svr, sent, now, is_running_, is_device_working_,
      video_reference_pts_, video_reference_time_, first_audio_pts_,
      first_audio_time_, first_frame_received_, ctl_pc, rst_pc, rst_pending,
      next_id, dequeued, epoch_id, corrections, session_fresh>>

\* OnData: lock buffer_mutex_; a full queue loses its oldest frame and the
\* scope goes on to the notification, otherwise the scope ends
Sect_OverflowLock ==
    /\ od.pc = "overflow"
    /\ BufferMutexFree
    /\ audio_buffer_' = BufferAfterOverflowCheck(audio_buffer_)
    /\ od' = [od EXCEPT !.pc = IF Len(audio_buffer_) >= max_buffer_size_
                                 THEN "overflow_notify" ELSE "pts_flag"]
    /\ UNCHANGED <<section_rest_vars, worker, notified>>

\* NotifyAudioState(AUDIO_STATE_BUFFER_OVERFLOW) inside the scope; then the
\* scope ends and buffer_mutex_ is released
Sect_OverflowNotify ==
    /\ od.pc = "overflow_notify"
    /\ notified' = NotifyAudioState(notified, AUDIO_STATE_BUFFER_OVERFLOW)
    /\ od' = [od EXCEPT !.pc = "pts_flag"]
    /\ UNCHANGED <<section_rest_vars, worker, audio_buffer_>>

\* the push of OnData and the dequeue of the worker wait for buffer_mutex_
Sect_Push == BufferMutexFree /\ OnData_Push
Sect_Dequeue(w) == BufferMutexFree /\ Worker_Dequeue(w)

\* empty queue: std::this_thread::sleep_for(5 ms)
Sect_Sleep(w) ==
    /\ worker[w].pc = "wait"
    /\ worker' = [worker EXCEPT ![w].pc = "underflow"]
    /\ UNCHANGED <<section_rest_vars, od, audio_buffer_, notified>>

\* lock buffer_mutex_ and look at the queue again: when it is still empty
\* the scope goes on to the notification, otherwise it ends
Sect_UnderflowLock(w) ==
    /\ worker[w].pc = "underflow"
    /\ BufferMutexFree
    /\ worker' = [worker EXCEPT ![w].pc = IF audio_buffer_ = <<>>
                                          THEN "underflow_notify" ELSE "loop"]
    /\ UNCHANGED <<section_rest_vars, od, audio_buffer_, notified>>

\* NotifyAudioState(AUDIO_STATE_BUFFER_UNDERFLOW) inside the scope; then the
\* scope ends and buffer_mutex_ is released
Sect_UnderflowNotify(w) ==
    /\ worker[w].pc = "underflow_notify"
    /\ notified' = NotifyAudioState(notified, AUDIO_STATE_BUFFER_UNDERFLOW)
    /\ worker' = [worker EXCEPT ![w].pc = "loop"]
    /\ UNCHANGED <<section_rest_vars, od, audio_buffer_>>

\* the video variables that the steps of the first-frame and key-frame
\* blocks leave alone
block_rest_vars ==
    <<signaling_vars, now, audio_vars, bringups, mb, sync_calls, v_is_initialized_,
      v_is_running_, is_decoder_ready_, is_display_ready_, width_, height_,
      codec_type_, audio_sync_callback_, vdec, vo, vstop_pc, submitted,
      v_frames, v_starts, v_resets>>

\* if (!first_frame_received_): lock sync_mutex_ and record the first frame
Sect_FirstFrameLock ==
    /\ vf.pc = "first_frame"
    /\ IF ~v_first_frame_received_
       THEN /\ v_first_frame_received_' = TRUE
            /\ first_frame_pts_' = PresentationMs(vf.frame)
            /\ first_frame_time_' = vf.current_time
            /\ vf' = [vf EXCEPT !.pc = "first_frame_notify", !.first = v_session_fresh]
       ELSE /\ vf' = [vf EXCEPT !.pc = "key_frame", !.first = v_session_fresh]
            /\ UNCHANGED <<v_first_frame_received_, first_frame_pts_,
                           first_frame_time_>>
    /\ v_session_fresh' = FALSE
    /\ UNCHANGED <<block_rest_vars, v_notified, v_outcome>>

\* NotifyVideoState(VIDEO_STATE_FIRST_FRAME), inside the scope of the
\* lock_guard
Sect_FirstFrameNotify ==
    /\ vf.pc = "first_frame_notify"
    /\ v_notified' = NotifyVideoState(v_notified, VIDEO_STATE_FIRST_FRAME)
    /\ vf' = [vf EXCEPT !.pc = "first_frame_call"]
    /\ UNCHANGED <<block_rest_vars, v_session_fresh, v_outcome,
                   v_first_frame_received_, first_frame_pts_, first_frame_time_>>

\* if (is_key_frame): NotifyVideoState(VIDEO_STATE_KEY_FRAME), before the
\* lock_guard; otherwise the call returns
Sect_KeyFrameNotify ==
    /\ vf.pc = "key_frame"
    /\ IF vf.frame.key
       THEN /\ v_notified' = NotifyVideoState(v_notified, VIDEO_STATE_KEY_FRAME)
            /\ vf' = [vf EXCEPT !.pc = "key_frame_lock"]
            /\ UNCHANGED v_outcome
       ELSE /\ vf' = VfIdle
            /\ Returns(vf.n, "ok")
            /\ UNCHANGED v_notified
    /\ UNCHANGED <<block_rest_vars, v_session_fresh,
                   v_first_frame_received_, first_frame_pts_, first_frame_time_>>

\* lock sync_mutex_ in the key-frame block
Sect_KeyFrameLock ==
    /\ vf.pc = "key_frame_lock"
    /\ vf' = [vf EXCEPT !.pc = "key_frame_call"]
    /\ UNCHANGED <<block_rest_vars, v_session_fresh, v_outcome, v_notified,
                   v_first_frame_received_, first_frame_pts_, first_frame_time_>>

NextSections ==
    \/ Initialize
    \/ Start
    \/ OnData_Check
    \/ Sect_OverflowLock
    \/ Sect_OverflowNotify
    \/ Pts_ReadFlag
    \/ Pts_First
    \/ Pts_ReadTime
    \/ Pts_ReadBase
    \/ Pts_Sync
    \/ Sect_Push
    \/ \E w \in Threads : Worker_Loop(w)
    \/ \E w \in Threads : Sect_Dequeue(w)
    \/ \E w \in Threads : Worker_Send(w)
    \/ \E w \in Threads : Sect_Sleep(w)
    \/ \E w \in Threads : Sect_UnderflowLock(w)
    \/ \E w \in Threads : Sect_UnderflowNotify(w)
    \/ VideoInitialize
    \/ VideoStart
    \/ SetAudioSyncCallback
    \/ OnEncodedImage_Check
    \/ OnEncodedImage_Ready
    \/ InitializeDecoder_Create
    \/ InitializeDecoder_StartRecv
    \/ InitializeDisplay_Device
    \/ InitializeDisplay_Layer
    \/ InitializeDisplay_Bind
    \/ Decode_Check
    \/ Decode_CreateMB
    \/ Decode_SendStream
    \/ Sect_FirstFrameLock
    \/ Sect_FirstFrameNotify
    \/ Sect_KeyFrameNotify
    \/ Sect_KeyFrameLock
    \/ Locks_CallbackEnter
    \/ SetVideoReference_StorePts
    \/ SetVideoReference_StoreTime
    \/ Locks_BlockEnd

SpecSections == Init /\ [][NextSections]_vars

(***************************************************************************)
(* C31, C32                                                                *)
(***************************************************************************)
\* the mutexes held by the delivery thread of the audio pipeline, by worker
\* w and by the thread that delivers the video frames
HeldByDelivery == IF od.pc = "overflow_notify" THEN {"buffer_mutex_"} ELSE {}
HeldByWorker(w) ==
    IF worker[w].pc = "underflow_notify" THEN {"buffer_mutex_"} ELSE {}
HeldByVideo ==
    (IF vf.pc \in VideoSyncMutexHeldAt \cup {"first_frame_notify"}
     THEN {"video_sync_mutex_"} ELSE {})
    \cup (IF svr.pc # "idle" THEN {"audio_sync_mutex_"} ELSE {})

\* the thread takes a step
DeliveryMoves == od' # od
WorkerMoves(w) == worker'[w] # worker[w]
VideoMoves == vf' # vf \/ svr' # svr

\* the positions at which the video thread is about to call the hardware:
\* RK_MPI_VDEC_CreateChn, RK_MPI_VDEC_StartRecvStream, the RK_MPI_VO and
\* RK_MPI_SYS calls of the display bring-up, RK_MPI_SYS_CreateMB and
\* RK_MPI_VDEC_SendStream
VideoHardwareAt ==
    {"vdec_create", "vdec_start", "vo_device", "vo_layer", "vo_bind",
     "create_mb", "send"}

\* the steps that call the hardware or sleep
WorkerCallsHardware(w) == worker[w].pc = "send" /\ WorkerMoves(w)
WorkerSleeps(w) == worker[w].pc = "wait" /\ WorkerMoves(w)
VideoCallsHardware == vf.pc \in VideoHardwareAt /\ vf' # vf

\* the steps that invoke the state callback
DeliveryNotifies == DeliveryMoves /\ od.pc = "overflow_notify"
WorkerNotifies(w) ==
    /\ WorkerMoves(w)
    /\ \/ worker[w].pc = "underflow_notify"
       \/ notified'[AUDIO_STATE_DEVICE_ERROR] # notified[AUDIO_STATE_DEVICE_ERROR]
VideoNotifies == vf' # vf /\ v_notified' # v_notified

\* the step in which the video thread enters the callback
VideoEntersCallback == vf' # vf /\ sync_calls' # sync_calls

\* no hardware call and no sleep is made by a thread that holds a mutex
C31_NoHardwareCallUnderMutex ==
    [][/\ \A w \in Threads :
            (WorkerCallsHardware(w) \/ WorkerSleeps(w)) =>
                HeldByWorker(w) = {}
       /\ VideoCallsHardware => HeldByVideo = {}]_vars

\* a thread that holds a mutex only works on what the mutex protects: it
\* makes no notification and enters no callback
C31_MutexHeldOnlyForItsData ==
    [][/\ (DeliveryMoves /\ HeldByDelivery # {}) => ~DeliveryNotifies
       /\ \A w \in Threads :
            (WorkerMoves(w) /\ HeldByWorker(w) # {}) => ~WorkerNotifies(w)
       /\ (VideoMoves /\ "video_sync_mutex_" \in HeldByVideo) =>
            (~VideoNotifies /\ ~VideoEntersCallback)]_vars

\* C31: no hardware call and no sleep executes while the audio buffer mutex
\* or a sync mutex is held: the buffer mutex is held only for the queue
\* push/pop/size step, and a sync mutex only for reading or writing the sync
\* pair and the epoch fields
C31_SectionsAreMinimal ==
    /\ C31_NoHardwareCallUnderMutex
    /\ C31_MutexHeldOnlyForItsData

\* C32: every state-notification callback is invoked with no pipeline mutex
\* held by the invoking thread, so a callback that calls a status accessor
\* of the same pipeline (GetBufferSize, GetCurrentDelayMs) or
\* SetVideoReference finds the mutex free of its own thread
C32_NotifiesWithoutMutex ==
    [][/\ DeliveryNotifies => HeldByDelivery = {}
       /\ \A w \in Threads : WorkerNotifies(w) => HeldByWorker(w) = {}
       /\ VideoNotifies => HeldByVideo = {}]_vars

\* the parts of C32 that concern the notifications made outside a section:
\* device error (worker) and key frame (video thread)
C32_DeviceErrorAndKeyFrameOutside ==
    [][/\ \A w \in Threads :
            (WorkerMoves(w) /\ worker[w].pc = "send") => HeldByWorker(w) = {}
       /\ (vf.pc = "key_frame" /\ vf' # vf) => HeldByVideo = {}]_vars

(***************************************************************************)
(* C33                                                                     *)
(***************************************************************************)
\* the step in which RK_MPI_VDEC_SendStream fails
SubmissionFails ==
    /\ vf.pc = "send"
    /\ v_outcome[vf.n] = "none"
    /\ v_outcome'[vf.n] = "decode_failed"

\* a failed submission drops the frame: the call returns, the frame is not
\* marked as the first frame and the reference is not updated; the running
\* flag and the ready flags are unchanged
C33_FailureDropsFrameOnly ==
    [][SubmissionFails =>
        /\ vf'.pc = "idle"
        /\ UNCHANGED <<v_first_frame_received_, first_frame_pts_,
                       first_frame_time_, v_session_fresh, sync_calls,
                       video_reference_pts_, video_reference_time_,
                       v_is_running_, is_decoder_ready_, is_display_ready_,
                       vdec, vo>>]_vars

\* a failed submission gives the observer one decoder-error notification
C33_FailureNotifiesDecoderError ==
    [][SubmissionFails =>
        v_notified'[VIDEO_STATE_DECODER_ERROR] =
            v_notified[VIDEO_STATE_DECODER_ERROR] + 1]_vars

\* the frame delivered after a failed submission is submitted without a new
\* bring-up when nothing else happened to the pipeline
C33_NextFrameSubmitted ==
    [][(vf.pc = "ready" /\ vf' # vf /\ vf.n > 1
        /\ v_outcome[vf.n - 1] = "decode_failed"
        /\ is_decoder_ready_ /\ is_display_ready_) => vf'.pc = "decode"]_vars

\* C33: a failed decoder submission emits one decoder-error notification and
\* drops the frame without marking it as the first frame and without
\* updating the reference; the running and ready flags are unchanged and the
\* next delivered frame is submitted normally
C33_SubmissionFailureIsTransient ==
    /\ C33_FailureNotifiesDecoderError
    /\ C33_FailureDropsFrameOnly
    /\ C33_NextFrameSubmitted

(***************************************************************************)
(* C34                                                                     *)
(***************************************************************************)
\* Initialize can be called: the owner is in no other call
InitializeCallable == ctl_pc = "idle"

\* the outcomes of a submission when the device-health flag is working
SendOutcomesWhen(working) == IF working THEN BOOLEAN ELSE {FALSE}

\* C34: after an Initialize that fails the device-health flag is false and
\* no chunk reaches the hardware, also when the failing Initialize follows a
\* successful one
C34_FailedInitializeDisablesDevice ==
    InitializeCallable =>
        /\ ~DeviceWorkingAfterInitialize(FALSE, is_device_working_)
        /\ TRUE \notin
              SendOutcomesWhen(DeviceWorkingAfterInitialize(FALSE, is_device_working_))

(***************************************************************************)
(* C35                                                                     *)
(***************************************************************************)
\* worker w returns from SendAudioFrameToDevice; the entry the step adds to
\* the log of submissions
SendReturnsFor(w) == worker[w].pc = "send" /\ worker'[w].pc # "send"
LastSent == sent'[Len(sent')]

\* the step of a successful Initialize that finds the device off, and the
\* step of Stop that disables the device
InitializeTurnsDeviceOn ==
    /\ ctl_pc = "idle" /\ ctl_pc' = "idle"
    /\ UNCHANGED <<is_running_, worker, audio_buffer_, od, sent, dequeued>>
StopDisablesDevice == ctl_pc = "disable" /\ ctl_pc' = "idle"

\* a chunk reaches the hardware only while the flag is true; with the flag
\* false the submission fails and the observer gets a device error
C35_HardwareOnlyWhileDeviceWorks ==
    [][\A w \in Threads : SendReturnsFor(w) =>
          /\ LastSent.ok => is_device_working_
          /\ ~is_device_working_ =>
                /\ ~LastSent.ok
                /\ notified'[AUDIO_STATE_DEVICE_ERROR] =
                       notified[AUDIO_STATE_DEVICE_ERROR] + 1]_vars

\* the flag is set by a successful Initialize only and cleared by Stop only:
\* Start, the worker and the deliveries never write it, and Stop always
\* leaves it cleared
C35_FlagFollowsInitializeAndStop ==
    [][/\ (~is_device_working_ /\ is_device_working_') => InitializeTurnsDeviceOn
       /\ (is_device_working_ /\ ~is_device_working_') => StopDisablesDevice
       /\ StopDisablesDevice => ~is_device_working_']_vars

IceConnectionStates ==
    {"New", "Checking", "Connected", "Completed", "Failed", "Disconnected", "Closed"}

\* (variant: only a failed connection resets the pipelines)
Mutant_ResetsOnFailedOnly(new_state) == new_state = "Failed"

\* the condition under which OnIceConnectionChange resets the pipelines
IceStateResets(new_state) == new_state = "Disconnected" \/ new_state = "Failed"

\* SetMediaHandlers: the handlers are injected (either may be null)
SetMediaHandlers(video_handler, audio_handler) ==
    /\ pco.pc = "idle"
    /\ pco' = [pco EXCEPT !.encoded_video_handler_ = video_handler,
                          !.audio_receiver_ = audio_handler]
    /\ UNCHANGED <<now, audio_vars, video_vars, is_connected_, is_connecting_,
                   should_reconnect_, should_exit_, reconnect_attempts_,
                   message_queue_, room_id_, client_id_, wst, conn, app, reg,
                   queued, written, established, close_called>>

\* the variables no step of OnIceConnectionChange itself writes
ice_rest_vars ==
    <<now, audio_vars, video_vars, is_connected_, is_connecting_,
      should_reconnect_, should_exit_, reconnect_attempts_, message_queue_,
      room_id_, client_id_, wst, conn, app, reg, queued, written, established,
      close_called>>

\* the peer connection reports a new ICE state: the callback is entered
OnIceConnectionChange(new_state) ==
    /\ pco.pc = "idle"
    /\ IceStateResets(new_state) => epoch_id < MaxResets /\ v_resets < MaxVideoResets
    /\ pco' = [pco EXCEPT !.pc = "entered", !.new_state = new_state,
                          !.epoch0 = epoch_id, !.resets0 = v_resets]
    /\ UNCHANGED ice_rest_vars

\* if (client_) { if (new_state == Disconnected || new_state == Failed) {
Ice_Dispatch ==
    /\ pco.pc = "entered"
    /\ pco' = [pco EXCEPT !.pc = IF pco.client_ /\ IceStateResets(pco.new_state)
                                 THEN "audio" ELSE "return"]
    /\ UNCHANGED ice_rest_vars

\* if (audio_receiver_)
Ice_AudioCheck ==
    /\ pco.pc = "audio"
    /\ pco' = [pco EXCEPT !.pc = IF pco.audio_receiver_ THEN "audio_call" ELSE "video"]
    /\ UNCHANGED ice_rest_vars

\* audio_receiver_->Reset() is entered
Ice_AudioReset ==
    /\ pco.pc = "audio_call"
    /\ epoch_id = pco.epoch0
    /\ Reset_Begin

\* audio_receiver_->Reset() has returned
Ice_AudioReturn ==
    /\ pco.pc = "audio_call"
    /\ rst_pc = "idle"
    /\ epoch_id > pco.epoch0
    /\ pco' = [pco EXCEPT !.pc = "video"]
    /\ UNCHANGED ice_rest_vars

\* if (encoded_video_handler_)
Ice_VideoCheck ==
    /\ pco.pc = "video"
    /\ pco' = [pco EXCEPT !.pc = IF pco.encoded_video_handler_ THEN "video_call" ELSE "return"]
    /\ UNCHANGED ice_rest_vars

\* encoded_video_handler_->Reset()
Ice_VideoReset ==
    /\ pco.pc = "video_call"
    /\ v_resets = pco.resets0
    /\ VideoReset

\* encoded_video_handler_->Reset() has returned
Ice_VideoReturn ==
    /\ pco.pc = "video_call"
    /\ v_resets > pco.resets0
    /\ pco' = [pco EXCEPT !.pc = "return"]
    /\ UNCHANGED ice_rest_vars

\* the callback returns
Ice_Return ==
    /\ pco.pc = "return"
    /\ pco' = [pco EXCEPT !.pc = "idle"]
    /\ UNCHANGED ice_rest_vars

(***************************************************************************)
(* SpecIce: the audio pipeline receiving chunks and the video pipeline,    *)
(* with the observer's ICE callback as the only caller of Reset.           *)
(***************************************************************************)
NextIce ==
    \/ \E video_handler \in BOOLEAN, audio_handler \in BOOLEAN :
          SetMediaHandlers(video_handler, audio_handler)
    \/ \E new_state \in IceConnectionStates : OnIceConnectionChange(new_state)
    \/ Ice_Dispatch
    \/ Ice_AudioCheck
    \/ Ice_AudioReset
    \/ Reset_Store
    \/ Reset_Clear
    \/ Ice_AudioReturn
    \/ Ice_VideoCheck
    \/ Ice_VideoReset
    \/ Ice_VideoReturn
    \/ Ice_Return
    \/ Initialize
    \/ Start
    \/ OnData_Check
    \/ OnData_Overflow
    \/ Pts_ReadFlag
    \/ Pts_First
    \/ Pts_ReadTime
    \/ Pts_ReadBase
    \/ Pts_Sync
    \/ OnData_Push

SpecIce == Init /\ [][NextIce]_vars

\* the ICE states on which the claim has the pipelines reset
ResettingStates == {"Disconnected", "Failed"}
\* Reset calls on the audio pipeline since the callback was entered
AudioResetsInCallback == epoch_id - pco.epoch0
\* Reset calls on the video pipeline since the callback was entered
VideoResetsInCallback == v_resets - pco.resets0

\* a callback for Disconnected or Failed returns after one Reset on each
\* pipeline whose handler is set
C36_ResetsBothPipelines ==
    (pco.pc = "return" /\ pco.new_state \in ResettingStates) =>
        /\ AudioResetsInCallback = (IF pco.audio_receiver_ THEN 1 ELSE 0)
        /\ VideoResetsInCallback = (IF pco.encoded_video_handler_ THEN 1 ELSE 0)

\* a callback for any other state resets nothing, at any point of its run
C36_OtherStatesResetNothing ==
    (pco.pc # "idle" /\ pco.new_state \notin ResettingStates) =>
        /\ AudioResetsInCallback = 0
        /\ VideoResetsInCallback = 0
        /\ rst_pc = "idle"

\* C36: whenever the ICE state changes to Disconnected or Failed, Reset is
\* invoked on the audio pipeline and on the video pipeline (on each one that
\* is set), and a change to any other ICE state invokes Reset on neither
C36_IceLossResetsPipelines ==
    /\ C36_ResetsBothPipelines
    /\ C36_OtherStatesResetNothing

\* both handlers are set, the connection was reported disconnected, and the
\* callback is about to return after resetting a pipeline that held a chunk
C36_Witness ==
    /\ pco.pc = "return"
    /\ pco.new_state = "Disconnected"
    /\ pco.audio_receiver_
    /\ pco.encoded_video_handler_
    /\ notified[AUDIO_STATE_SYNC_RESET] = 1
    /\ v_resets = 1
    /\ next_id >= 1
    /\ audio_buffer_ = <<>>

(***************************************************************************)
(* WebSocketSignalingClient: the caller's thread, the websocket thread     *)
(* and the connection inside libwebsockets.                                *)
(***************************************************************************)
\* the media pipelines, the clock and the observer: no part of the signaling client
media_vars == <<now, audio_vars, video_vars, pco>>

\* the room the caller registers with
RoomIds == {"r1"}
\* the client ids the caller registers with: none given, or its own
ClientIds == {"", "c1"}
\* a client id made by GenerateRandomId
GeneratedId == "generated"
\* an argument of the automatic Register that has not been evaluated yet
Unread == "?"

\* the message SendMessage builds: its type and content, with its place in
\* the order of all pushes and the connection it was pushed under
NewMessage(type, room) ==
    [id |-> Len(queued) + 1, type |-> type, room |-> room, est |-> established]

\* Connect: refused while connected, connecting or while the thread object
\* is joinable; otherwise StartWebSocketThread starts the thread
App_Connect ==
    /\ app.pc = "idle"
    /\ app.connects < MaxConnects
    /\ app' = [app EXCEPT !.connects = @ + 1]
    /\ IF is_connected_ \/ is_connecting_ \/ wst.pc # "none"
       THEN UNCHANGED <<should_exit_, is_connecting_, wst, close_called>>
       ELSE /\ should_exit_' = FALSE
            /\ is_connecting_' = TRUE
            /\ wst' = [WstInit EXCEPT !.pc = "create"]
            /\ close_called' = FALSE
    /\ UNCHANGED <<media_vars, is_connected_, should_reconnect_, reconnect_attempts_,
                   message_queue_, room_id_, client_id_, conn, reg, queued,
                   written, established>>

\* the caller calls Register(room_id, client_id)
App_Register(room_id, client_id) ==
    /\ app.pc = "idle"
    /\ app.registers < MaxRegisters
    /\ app' = [app EXCEPT !.pc = "register", !.registers = @ + 1]
    /\ reg' = [reg EXCEPT !["app"] = [pc |-> "store", room |-> room_id,
                                      client |-> client_id, content |-> ""]]
    /\ UNCHANGED <<media_vars, is_connected_, is_connecting_, should_reconnect_,
                   should_exit_, reconnect_attempts_, message_queue_, room_id_,
                   client_id_, wst, conn, queued, written, established,
                   close_called>>

\* the client id Register stores
ClientIdAfterRegister(client_id, stored) ==
    IF client_id # "" THEN client_id
    ELSE IF stored = "" THEN GeneratedId ELSE stored

\* Register, step 1: the ids are stored under info_mutex_
Register_Store(t) ==
    /\ reg[t].pc = "store"
    /\ room_id_' = reg[t].room
    /\ client_id_' = ClientIdAfterRegister(reg[t].client, client_id_)
    /\ reg' = [reg EXCEPT ![t].pc = "check"]
    /\ UNCHANGED <<media_vars, is_connected_, is_connecting_, should_reconnect_,
                   should_exit_, reconnect_attempts_, message_queue_, wst, conn,
                   app, queued, written, established, close_called>>

\* Register, step 2: if (!IsConnected()) return true
Register_Check(t) ==
    /\ reg[t].pc = "check"
    /\ reg' = [reg EXCEPT ![t].pc = IF ~is_connected_ THEN "return" ELSE "content"]
    /\ UNCHANGED <<media_vars, is_connected_, is_connecting_, should_reconnect_,
                   should_exit_, reconnect_attempts_, message_queue_, room_id_,
                   client_id_, wst, conn, app, queued, written, established,
                   close_called>>

\* Register, step 3: content["roomId"] = GetRoomId()
Register_Content(t) ==
    /\ reg[t].pc = "content"
    /\ reg' = [reg EXCEPT ![t].pc = "send", ![t].content = room_id_]
    /\ UNCHANGED <<media_vars, is_connected_, is_connecting_, should_reconnect_,
                   should_exit_, reconnect_attempts_, message_queue_, room_id_,
                   client_id_, wst, conn, app, queued, written, established,
                   close_called>>

\* Register, step 3: SendMessage(REGISTER, content) pushes the message
Register_Send(t) ==
    /\ reg[t].pc = "send"
    /\ message_queue_' = Append(message_queue_, NewMessage("register", reg[t].content))
    /\ queued' = Append(queued, NewMessage("register", reg[t].content))
    /\ reg' = [reg EXCEPT ![t].pc = "return"]
    /\ UNCHANGED <<media_vars, is_connected_, is_connecting_, should_reconnect_,
                   should_exit_, reconnect_attempts_, room_id_, client_id_, wst,
                   conn, app, written, established, close_called>>

\* Register returns to the caller
App_Register_Return ==
    /\ app.pc = "register"
    /\ reg["app"].pc = "return"
    /\ reg' = [reg EXCEPT !["app"] = RegIdle]
    /\ app' = [app EXCEPT !.pc = "idle"]
    /\ UNCHANGED <<media_vars, is_connected_, is_connecting_, should_reconnect_,
                   should_exit_, reconnect_attempts_, message_queue_, room_id_,
                   client_id_, wst, conn, queued, written, established,
                   close_called>>

\* SendOffer, SendAnswer, SendCandidate, SendLeave: SendMessage pushes the message
App_SendMessage ==
    /\ app.pc = "idle"
    /\ Len(queued) < MaxMessages
    /\ message_queue_' = Append(message_queue_, NewMessage("offer", ""))
    /\ queued' = Append(queued, NewMessage("offer", ""))
    /\ UNCHANGED <<media_vars, is_connected_, is_connecting_, should_reconnect_,
                   should_exit_, reconnect_attempts_, room_id_, client_id_, wst,
                   conn, app, reg, written, established, close_called>>

\* Close is called: StopWebSocketThread returns at once if should_exit_ is
\* already set, otherwise it sets the flag and goes on to join the thread
Close_Stop ==
    /\ app.pc = "idle"
    /\ close_called' = TRUE
    /\ IF should_exit_
       THEN /\ app' = [app EXCEPT !.pc = "close_clear"]
            /\ UNCHANGED should_exit_
       ELSE /\ should_exit_' = TRUE
            /\ app' = [app EXCEPT !.pc = "close_join"]
    /\ UNCHANGED <<media_vars, is_connected_, is_connecting_, should_reconnect_,
                   reconnect_attempts_, message_queue_, room_id_, client_id_,
                   wst, conn, reg, queued, written, established>>

\* if (websocket_thread_.joinable()) websocket_thread_.join()
Close_Join ==
    /\ app.pc = "close_join"
    /\ wst.pc \in {"none", "done"}
    /\ wst' = WstInit
    /\ app' = [app EXCEPT !.pc = "close_clear"]
    /\ UNCHANGED <<media_vars, is_connected_, is_connecting_, should_reconnect_,
                   should_exit_, reconnect_attempts_, message_queue_, room_id_,
                   client_id_, conn, reg, queued, written, established,
                   close_called>>

\* Close: the queue is emptied and the connection state cleared
Close_Clear ==
    /\ app.pc = "close_clear"
    /\ message_queue_' = <<>>
    /\ is_connected_' = FALSE
    /\ is_connecting_' = FALSE
    /\ should_reconnect_' = FALSE
    /\ reconnect_attempts_' = 0
    /\ app' = [app EXCEPT !.pc = "idle"]
    /\ UNCHANGED <<media_vars, should_exit_, room_id_, client_id_, wst, conn,
                   reg, queued, written, established, close_called>>

\* the thread starts: CreateWebSocketConnection succeeds or fails
WS_Create ==
    /\ wst.pc = "create"
    /\ \E ok \in BOOLEAN :
          IF ok
          THEN /\ conn' = "connecting"
               /\ wst' = [wst EXCEPT !.pc = "loop"]
               /\ UNCHANGED is_connecting_
          ELSE /\ is_connecting_' = FALSE
               /\ wst' = [wst EXCEPT !.pc = "done"]
               /\ UNCHANGED conn
    /\ UNCHANGED <<media_vars, is_connected_, should_reconnect_, should_exit_,
                   reconnect_attempts_, message_queue_, room_id_, client_id_,
                   app, reg, queued, written, established, close_called>>

\* while (!should_exit_): the loop goes on, or the thread destroys the
\* context, clears the connection flags and ends
WS_Loop ==
    /\ wst.pc = "loop"
    /\ IF should_exit_
       THEN /\ conn' = "none"
            /\ is_connected_' = FALSE
            /\ is_connecting_' = FALSE
            /\ wst' = [wst EXCEPT !.pc = "done"]
       ELSE /\ wst' = [wst EXCEPT !.pc = "service"]
            /\ UNCHANGED <<conn, is_connected_, is_connecting_>>
    /\ UNCHANGED <<media_vars, should_reconnect_, should_exit_, reconnect_attempts_,
                   message_queue_, room_id_, client_id_, app, reg, queued,
                   written, established, close_called>>

\* lws_service returns without a connection event
WS_Service ==
    /\ wst.pc = "service"
    /\ wst' = [wst EXCEPT !.pc = "send"]
    /\ UNCHANGED <<media_vars, is_connected_, is_connecting_, should_reconnect_,
                   should_exit_, reconnect_attempts_, message_queue_, room_id_,
                   client_id_, conn, app, reg, queued, written, established,
                   close_called>>

\* lws_service delivers LWS_CALLBACK_CLIENT_ESTABLISHED
WS_Established ==
    /\ wst.pc = "service"
    /\ conn = "connecting"
    /\ established < MaxEstablished
    /\ conn' = "established"
    /\ is_connected_' = TRUE
    /\ is_connecting_' = FALSE
    /\ reconnect_attempts_' = 0
    /\ established' = established + 1
    /\ wst' = [wst EXCEPT !.pc = "est_args", !.room = Unread, !.client = Unread]
    /\ UNCHANGED <<media_vars, should_reconnect_, should_exit_, message_queue_,
                   room_id_, client_id_, app, reg, queued, written,
                   close_called>>

\* the callback evaluates instance->GetRoomId()
WS_ReadRoom ==
    /\ wst.pc = "est_args"
    /\ wst.room = Unread
    /\ wst' = [wst EXCEPT !.room = room_id_]
    /\ UNCHANGED <<media_vars, is_connected_, is_connecting_, should_reconnect_,
                   should_exit_, reconnect_attempts_, message_queue_, room_id_,
                   client_id_, conn, app, reg, queued, written, established,
                   close_called>>

\* the callback evaluates instance->GetClientId()
WS_ReadClient ==
    /\ wst.pc = "est_args"
    /\ wst.client = Unread
    /\ wst' = [wst EXCEPT !.client = client_id_]
    /\ UNCHANGED <<media_vars, is_connected_, is_connecting_, should_reconnect_,
                   should_exit_, reconnect_attempts_, message_queue_, room_id_,
                   client_id_, conn, app, reg, queued, written, established,
                   close_called>>

\* the callback calls Register with the two values it read
WS_Register ==
    /\ wst.pc = "est_args"
    /\ wst.room # Unread
    /\ wst.client # Unread
    /\ reg' = [reg EXCEPT !["ws"] = [pc |-> "store", room |-> wst.room,
                                     client |-> wst.client, content |-> ""]]
    /\ wst' = [wst EXCEPT !.pc = "est_register"]
    /\ UNCHANGED <<media_vars, is_connected_, is_connecting_, should_reconnect_,
                   should_exit_, reconnect_attempts_, message_queue_, room_id_,
                   client_id_, conn, app, queued, written, established,
                   close_called>>

\* Register returns to the callback, which returns to lws_service
WS_Register_Return ==
    /\ wst.pc = "est_register"
    /\ reg["ws"].pc = "return"
    /\ reg' = [reg EXCEPT !["ws"] = RegIdle]
    /\ wst' = [wst EXCEPT !.pc = "send", !.room = "", !.client = ""]
    /\ UNCHANGED <<media_vars, is_connected_, is_connecting_, should_reconnect_,
                   should_exit_, reconnect_attempts_, message_queue_, room_id_,
                   client_id_, conn, app, queued, written, established,
                   close_called>>

\* lws_service delivers LWS_CALLBACK_CLIENT_CONNECTION_ERROR for a connection
\* being made, or LWS_CALLBACK_CLOSED for an established one
WS_ConnectionLost ==
    /\ wst.pc = "service"
    /\ conn \in {"connecting", "established"}
    /\ conn' = "none"
    /\ is_connected_' = FALSE
    /\ is_connecting_' = FALSE
    /\ should_reconnect_' = (IF ~should_exit_ THEN TRUE ELSE should_reconnect_)
    /\ wst' = [wst EXCEPT !.pc = "send"]
    /\ UNCHANGED <<media_vars, should_exit_, reconnect_attempts_, message_queue_,
                   room_id_, client_id_, app, reg, queued, written, established,
                   close_called>>

\* if (is_connected_ && websocket_connection_): the queue is swapped into
\* the local messages_to_send under message_queue_mutex_
WS_Swap ==
    /\ wst.pc = "send"
    /\ IF is_connected_
       THEN /\ wst' = [wst EXCEPT !.pc = "write", !.batch = message_queue_]
            /\ message_queue_' = <<>>
       ELSE /\ wst' = [wst EXCEPT !.pc = "reconnect"]
            /\ UNCHANGED message_queue_
    /\ UNCHANGED <<media_vars, is_connected_, is_connecting_, should_reconnect_,
                   should_exit_, reconnect_attempts_, room_id_, client_id_, conn,
                   app, reg, queued, written, established, close_called>>

\* (variant: a failed write puts the whole local queue back in front)
Mutant_FailedWriteKeepsBatch(q, batch) == batch \o q

\* the queue after lws_write refused the front message of the local queue:
\* the message is pushed onto message_queue_, and the local queue is
\* destroyed at the end of its scope
QueueAfterFailedWrite(q, batch) == Append(q, Head(batch))

\* while (!messages_to_send.empty() && !should_exit_): lws_write of the
\* front message; a failure re-queues it and leaves the loop
WS_Write ==
    /\ wst.pc = "write"
    /\ IF wst.batch = <<>> \/ should_exit_
       THEN /\ wst' = [wst EXCEPT !.pc = "reconnect", !.batch = <<>>]
            /\ UNCHANGED <<message_queue_, written>>
       ELSE \E ok \in BOOLEAN :
               IF ok
               THEN /\ written' = Append(written, Head(wst.batch))
                    /\ wst' = [wst EXCEPT !.batch = Tail(@)]
                    /\ UNCHANGED message_queue_
               ELSE /\ message_queue_' = QueueAfterFailedWrite(message_queue_, wst.batch)
                    /\ wst' = [wst EXCEPT !.pc = "reconnect", !.batch = <<>>]
                    /\ UNCHANGED written
    /\ UNCHANGED <<media_vars, is_connected_, is_connecting_, should_reconnect_,
                   should_exit_, reconnect_attempts_, room_id_, client_id_, conn,
                   app, reg, queued, established, close_called>>

\* if (should_reconnect_ && !is_connected_ && !is_connecting_) TryReconnect();
\* then the 10 ms sleep and the next turn of the loop
WS_ReconnectCheck ==
    /\ wst.pc = "reconnect"
    /\ wst' = [wst EXCEPT !.pc = IF should_reconnect_ /\ ~is_connected_ /\ ~is_connecting_
                                 THEN "try" ELSE "loop"]
    /\ UNCHANGED <<media_vars, is_connected_, is_connecting_, should_reconnect_,
                   should_exit_, reconnect_attempts_, message_queue_, room_id_,
                   client_id_, conn, app, reg, queued, written, established,
                   close_called>>

\* (variant: TryReconnect allows one attempt more)
Mutant_OneAttemptMore(attempts) == attempts > max_reconnect_attempts_

\* TryReconnect gives up
ReconnectExhausted(attempts) == attempts >= max_reconnect_attempts_

\* TryReconnect: give up, or count the attempt and destroy the old context
WS_TryReconnect ==
    /\ wst.pc = "try"
    /\ IF ReconnectExhausted(reconnect_attempts_)
       THEN /\ should_reconnect_' = FALSE
            /\ wst' = [wst EXCEPT !.pc = "loop"]
            /\ UNCHANGED <<reconnect_attempts_, conn>>
       ELSE /\ reconnect_attempts_' = reconnect_attempts_ + 1
            /\ conn' = "none"
            /\ wst' = [wst EXCEPT !.pc = "try_create"]
            /\ UNCHANGED should_reconnect_
    /\ UNCHANGED <<media_vars, is_connected_, is_connecting_, should_exit_,
                   message_queue_, room_id_, client_id_, app, reg, queued,
                   written, established, close_called>>

\* TryReconnect after its 2 s sleep: is_connecting_ = true, and
\* CreateWebSocketConnection succeeds or fails
WS_TryCreate ==
    /\ wst.pc = "try_create"
    /\ \E ok \in BOOLEAN :
          /\ is_connecting_' = ok
          /\ conn' = (IF ok THEN "connecting" ELSE conn)
    /\ wst' = [wst EXCEPT !.pc = "loop"]
    /\ UNCHANGED <<media_vars, is_connected_, should_reconnect_, should_exit_,
                   reconnect_attempts_, message_queue_, room_id_, client_id_,
                   app, reg, queued, written, established, close_called>>

\* the steps of the websocket thread and of Register
SignalingSteps ==
    \/ \E t \in RegisterThreads : Register_Store(t)
    \/ \E t \in RegisterThreads : Register_Check(t)
    \/ \E t \in RegisterThreads : Register_Content(t)
    \/ \E t \in RegisterThreads : Register_Send(t)
    \/ App_Register_Return
    \/ WS_Create
    \/ WS_Loop
    \/ WS_Service
    \/ WS_Established
    \/ WS_ReadRoom
    \/ WS_ReadClient
    \/ WS_Register
    \/ WS_Register_Return
    \/ WS_ConnectionLost
    \/ WS_Swap
    \/ WS_Write
    \/ WS_ReconnectCheck
    \/ WS_TryReconnect
    \/ WS_TryCreate

(***************************************************************************)
(* SpecSignaling: a caller that connects, registers, sends and closes in   *)
(* any order, against the websocket thread and the connection's events.    *)
(***************************************************************************)
NextSignaling ==
    \/ App_Connect
    \/ \E room_id \in RoomIds, client_id \in ClientIds : App_Register(room_id, client_id)
    \/ App_SendMessage
    \/ Close_Stop
    \/ Close_Join
    \/ Close_Clear
    \/ SignalingSteps

SpecSignaling == Init /\ [][NextSignaling]_vars

\* the messages waiting to be written: the local queue of the send loop,
\* then message_queue_
PendingMessages == wst.batch \o message_queue_

\* lws_write refuses the front message of the local queue in this step
WriteFails ==
    /\ wst.pc = "write"
    /\ wst.batch # <<>>
    /\ ~should_exit_
    /\ wst'.pc = "reconnect"

\* the messages written so far are in the order in which they were queued
C37_WrittenInQueueOrder ==
    \A i, j \in 1..Len(written) : i < j => written[i].id < written[j].id

\* a refused write leaves the refused message and the messages behind it
\* pending, in their order
C37_FailedWriteKeepsPending ==
    [][WriteFails => PendingMessages' = PendingMessages]_vars

\* C37: the send loop writes the messages to the WebSocket in the order in
\* which they were queued, and a write that fails loses no queued message:
\* the refused message and every message queued behind it stay pending, in
\* their original order, for a later attempt
C37_SendLoopKeepsOrderAndMessages ==
    /\ []C37_WrittenInQueueOrder
    /\ C37_FailedWriteKeepsPending

\* TryReconnect counts a new attempt in this step
AttemptStarts == reconnect_attempts_' = reconnect_attempts_ + 1

\* TryReconnect is called in this step
TryReconnectCalled == wst.pc = "try" /\ wst'.pc # "try"

\* the counter never exceeds max_reconnect_attempts_
C38_CounterBounded == reconnect_attempts_ <= max_reconnect_attempts_

\* with the counter at the maximum a call of TryReconnect clears
\* should_reconnect_ and starts no attempt, and once it is cleared there
\* is no connection left whose events could set it again
C38_GivesUpAfterMax ==
    /\ [][(TryReconnectCalled /\ reconnect_attempts_ = max_reconnect_attempts_) =>
              ~should_reconnect_' /\ ~AttemptStarts /\ conn' = conn]_vars
    /\ []((reconnect_attempts_ = max_reconnect_attempts_ /\ ~should_reconnect_) =>
              conn = "none" /\ wst.pc \notin {"try", "try_create"})

\* an established connection sets the counter to 0
C38_EstablishedResetsCounter ==
    [][established' # established => reconnect_attempts_' = 0]_vars

\* no attempt starts once Close has been called
C38_NoAttemptAfterClose == [][AttemptStarts => ~close_called]_vars

\* C38: reconnection is bounded: reconnect_attempts_ never exceeds
\* max_reconnect_attempts_ (5); after 5 failed attempts in a row
\* should_reconnect_ is cleared and no further attempt is made; an
\* established connection sets the counter back to 0; and no reconnect
\* attempt is started after Close has been called
C38_ReconnectionIsBounded ==
    /\ []C38_CounterBounded
    /\ C38_GivesUpAfterMax
    /\ C38_EstablishedResetsCounter
    /\ C38_NoAttemptAfterClose

\* (what does hold: no attempt starts once Close has returned)
NoAttemptAfterCloseReturned ==
    [][AttemptStarts => ~(close_called /\ app.pc = "idle")]_vars

(***************************************************************************)
(* SpecRegister: the caller of WebRTCClient::ConnectToSignalingServer,     *)
(* which calls Connect and then Register once, against the websocket       *)
(* thread and the connection's events.                                     *)
(***************************************************************************)
NextRegister ==
    \/ app.connects = 0 /\ App_Connect
    \/ /\ app.connects = 1
       /\ \E room_id \in RoomIds, client_id \in ClientIds : App_Register(room_id, client_id)
    \/ SignalingSteps

SpecRegister == Init /\ [][NextRegister]_vars

\* the register messages pushed under the k-th established connection
RegistersOf(k) ==
    {i \in 1..Len(queued) : queued[i].type = "register" /\ queued[i].est = k}

\* the 'established' callback of the k-th connection has returned
EstablishedHandled(k) ==
    k < established \/ (k = established /\ wst.pc \notin {"est_args", "est_register"})

\* a Register that finds the connection not established returns after
\* storing the ids, without pushing a message
C39_EarlyRegisterOnlyStores ==
    [][\A t \in RegisterThreads :
          (reg[t].pc = "check" /\ reg'[t].pc # "check" /\ ~is_connected_) =>
              /\ reg'[t].pc = "return"
              /\ queued' = queued]_vars

\* each established connection has at most one register message pushed
\* under it, exactly one once its callback has returned, and that message
\* carries the caller's room id
C39_OneRegisterPerConnection ==
    \A k \in 1..established :
        /\ Cardinality(RegistersOf(k)) <= 1
        /\ EstablishedHandled(k) => Cardinality(RegistersOf(k)) = 1
        /\ \A i \in RegistersOf(k) : queued[i].room \in RoomIds

\* C39: a Register call made before the connection is established sends
\* nothing and only stores the room and client id, and on each connection
\* establishment exactly one register message carrying the stored,
\* non-empty room id is queued, in every interleaving of the connection
\* thread's 'established' callback with a caller that calls Connect and
\* then Register
C39_RegisterOncePerConnection ==
    /\ C39_EarlyRegisterOnlyStores
    /\ []C39_OneRegisterPerConnection

====
